---- MODULE Spec2Model ----
(***************************************************************************)
(* Model of the interview orchestration core of multi-agents-system:       *)
(* InterviewCoordinator (src/src/core/coordinator.py), the planner         *)
(* InterviewerAgent (src/src/agents/interviewer.py), InterviewMemory       *)
(* (src/src/core/memory_manager.py) and InterviewJSONLogger                *)
(* (src/src/core/json_logger.py).                                          *)
(*                                                                         *)
(* Python's None is the empty sequence and a present value x is <<x>>.     *)
(* A text is a sequence of word tokens; a token keeps its letter case.     *)
(* Russian literals of the source are transliterated.                      *)
(***************************************************************************)
EXTENDS Integers, Sequences, FiniteSets, TLC

----------------------------------------------------------------------------
(* Bounds of the exploration *)

\* answers processed by one coordinator under Spec
MaxAnswers == 2
\* answers processed by one coordinator under SpecLong
MaxLongAnswers == 10
\* answers processed by one coordinator under SpecTurn
MaxTurnAnswers == 1
\* question/answer pairs in the memory under SpecFeedback
MaxFeedbackPairs == 6
\* answers processed by one coordinator under SpecFailure
MaxFailureAnswers == 2
\* operations asked of the two coordinators under SpecIsolation
MaxIsolationOperations == 3
\* answers processed by one coordinator under SpecRotation
MaxRotationAnswers == 7
\* answers processed by one coordinator under SpecMarkers
MaxMarkerAnswers == 1
\* add_dialogue_turn calls made on the memory under SpecMemory
MaxMemoryCalls == 4
\* process_user_response calls that reach the planner under SpecInvalidStart
MaxInvalidStartAnswers == 4
\* answers processed by one coordinator under SpecSuggestion
MaxSuggestionAnswers == 2
\* answers processed by one coordinator under SpecActions
MaxActionAnswers == 1
\* start_interview calls on one coordinator
MaxStarts == 2
\* end_interview runs after which no further explicit end_interview is called
MaxEnds == 2

----------------------------------------------------------------------------
(* Values *)

None == <<>>
Some(x) == <<x>>

\* coordinator.py:395 / interviewer.py:616
difficulty_levels == <<"junior", "middle", "senior">>

\* interviewer.py:595 (the list as _generate_simpler_question writes it)
simpler_difficulty_levels == <<"senior", "middle", "junior">>

\* list.index(x) for an x that occurs in s
IndexOf(s, x) == CHOOSE i \in 1..Len(s) : s[i] = x /\ \A j \in 1..(i - 1) : s[j] # x

InList(s, x) == \E i \in 1..Len(s) : s[i] = x

\* the five phase names of the specification's state machine
SpecPhases == <<"greeting", "technical", "deep_dive", "closing", "ended">>

\* str.lower() on one token
LowerToken(t) ==
    CASE t = "STOP" -> "stop"
      [] t = "Stop" -> "stop"
      [] t = "INTERVIEW" -> "interview"
      [] t = "Interview" -> "interview"
      [] t = "Feedback" -> "feedback"
      [] t = "Python" -> "python"
      [] t = "SQL" -> "sql"
      [] OTHER -> t

\* str.lower()
Lower(text) == [i \in 1..Len(text) |-> LowerToken(text[i])]

\* keyword in text (both sequences of tokens)
Contains(text, keyword) ==
    \E i \in 1..(Len(text) - Len(keyword) + 1) :
        SubSeq(text, i, i + Len(keyword) - 1) = keyword

\* coordinator.py:415-418
end_keywords ==
    { <<"stop_ru", "intervyu">>, <<"zavershit">>, <<"fidbek">>, <<"konets">>,
      <<"stop", "interview">>, <<"finish">>, <<"feedback">>, <<"zavershite">> }

\* Recommendation texts of the observer (observer.py:146, 342-353)
rec_elaborate == "uprostit vopros ili poprosit dat bolee razvernutyj otvet"
rec_continue == "prodolzhit intervyu s tekushchej temoj i slozhnostyu"
rec_point_out == "vezhlivo ukazat na netochnost i zadat utochnyayushchij vopros"
rec_simplify == "uprostit vopros ili perejti k bolee bazovoj teme"
rec_escalate == "uslozhnit sleduyushchij vopros ili perejti k bolee prodvinutoj teme"
rec_easier == "zadat bolee prostoj vopros dlya vosstanovleniya uverennosti"

\* the detail _generate_recommendation appends for a backend position and
\* for a frontend position (observer.py:356-360)
backend_suffix == " s aktsentom na prakticheskie zadachi bekenda"
frontend_suffix == " s fokusom na interfejsnye tehnologii"

\* A recommendation is the sequence of its parts (text, then suffix).
\* "uprostit" in recommendation.lower()
HasSimplify(rec) ==
    \E i \in 1..Len(rec) : rec[i] \in {rec_elaborate, rec_simplify}

\* "uslozhnit" in recommendation.lower()
HasEscalate(rec) == \E i \in 1..Len(rec) : rec[i] \in {rec_escalate}

\* The closing notice and the inactive notice (coordinator.py:249, 121)
closing_notice == "[Intervyu zaversheno. Generiruyu fidbek...]"
inactive_notice == "Intervyu ne aktiven. Nachnite novoe intervyu."

----------------------------------------------------------------------------
(* Inputs *)

\* interview contexts passed to start_interview
Contexts ==
    { [position |-> "Backend Developer", technologies |-> <<"Python", "SQL">>] }

\* candidate messages
plain_answer == <<"ya", "rasskazhu", "o", "Python">>

\* a question of the candidate, an answer with a filler word, a short answer
counter_question == <<"a", "kakie", "zadachi", "o", "Python", "?">>
filler_answer == <<"nu", "ya", "rasskazhu", "o", "Python">>
short_answer == <<"Python">>

UserMessages ==
    { plain_answer,
      <<"stop", "interview", "give", "feedback">>,
      <<"STOP", "Interview">> }

TurnUserMessages ==
    UserMessages \cup {counter_question, filler_answer, short_answer}

LongUserMessages == { plain_answer, <<"give", "Feedback">> }

\* the record analyze_and_recommend returns on its short-circuit path
\* (observer.py:143-150); confidence_score is in tenths (0.3 is 3)
ShortCircuitResult ==
    [analysis |-> [accuracy |-> None, confidence |-> None,
                   phrases |-> {"otvet ne soderzhit poleznoj informatsii"}],
     answer_quality |-> 2, recommendation |-> <<rec_elaborate>>,
     has_hallucinations |-> FALSE, confidence_score |-> 3]

\* An analysis text of the generation service, by what the evaluator reads
\* in it: the N of "TOCHNOST: N/10" and of "UVERENNOST: N/10" (None when
\* the text has no such line) and the other phrases it holds.
excellent_analysis ==
    [accuracy |-> Some(9), confidence |-> Some(8), phrases |-> {"otlichn"}]
plain_analysis ==
    [accuracy |-> None, confidence |-> None, phrases |-> {}]
fabrication_analysis ==
    [accuracy |-> Some(6), confidence |-> Some(7),
     phrases |-> {"gallyutsinatsii: da"}]
out_of_range_analysis ==
    [accuracy |-> Some(0), confidence |-> Some(12), phrases |-> {"ne otvetil"}]

\* llm_client.py:93-96: the text generate returns when the request fails
fallback_text ==
    <<"prodolzhim", "intervyu", ".", "rasskazhite", "o", "vashem", "opyte",
      "raboty", "s", "osnovnymi", "tehnologiyami", ".">>

\* the fallback text as an analysis: it has neither of the two lines and
\* none of the phrases the evaluator looks for
fallback_analysis ==
    [accuracy |-> None, confidence |-> None,
     phrases |-> {"prodolzhim intervyu"}]

\* analysis texts the generation service can give (observer.py:318-319)
ObserverResults ==
    {excellent_analysis, plain_analysis, fabrication_analysis,
     out_of_range_analysis}

\* the analysis met under SpecLong: an excellent answer
LongObserverResults == {excellent_analysis}

\* the analyses met under SpecFailure: an excellent answer, or the request
\* of the evaluator fails
FailureObserverResults == {excellent_analysis, fallback_analysis}

\* candidate messages under SpecFailure
FailureUserMessages == { plain_answer, <<"give", "Feedback">> }

----------------------------------------------------------------------------
(* State *)

VARIABLES
    is_interview_active,  \* coordinator.is_interview_active
    current_topic,        \* coordinator.current_topic (None or <<topic>>)
    current_difficulty,   \* coordinator.current_difficulty
    interview_phase,      \* coordinator.interview_phase
    stats,                \* coordinator.stats
    interviewer,          \* the InterviewerAgent's fields
    memory,               \* the InterviewMemory's fields
    json_logger,          \* the InterviewJSONLogger's fields
    pc,                   \* position inside process_user_response
    frame,                \* locals of the process_user_response in flight
    ret,                  \* what the last completed call returned
    calls,                \* how often each operation has been invoked
    self_id,              \* the coordinator instance the fields above are of
    others,               \* the fields of the other coordinator instance
    _global_logger        \* json_logger._global_logger: the instance whose
                          \* logger it refers to

vars == <<is_interview_active, current_topic, current_difficulty,
          interview_phase, stats, interviewer, memory, json_logger,
          pc, frame, ret, calls, self_id, others, _global_logger>>

\* what tells the instances apart and what they share
session_vars == <<self_id, others, _global_logger>>

coordinator_vars == <<is_interview_active, current_topic, current_difficulty,
                      interview_phase, stats>>

NoFrame == [user_response |-> None, last_question |-> None,
            observer_result |-> None, action |-> None]

\* text is the returned text (for end_interview: empty, it returns the feedback)
NoReturn == [op |-> "none", text |-> <<>>]

\* one InterviewCoordinator has been constructed: its logger is the global
\* logger (coordinator.py:39-41, json_logger.py:280-283)
NoOthers == <<>>
OneCoordinator ==
    /\ self_id = 1
    /\ others = NoOthers
    /\ _global_logger = 1

\* a step of the only coordinator
Alone == UNCHANGED session_vars

\* coordinator.py:22-69, interviewer.py:47-54, memory_manager.py:18-41,
\* json_logger.py:167-184
Init ==
    /\ is_interview_active = FALSE
    /\ current_topic = None
    /\ current_difficulty = "junior"
    /\ interview_phase = "greeting"
    /\ stats = [total_questions |-> 0, correct_answers |-> 0,
                incorrect_answers |-> 0, hallucinations_detected |-> 0,
                offtopic_redirects |-> 0]
    /\ interviewer = [current_topic |-> None, current_difficulty |-> "junior",
                      question_count |-> 0, qa_history |-> <<>>]
    /\ memory = [dialogue_history |-> <<>>, interview_context |-> None,
                 topics_covered |-> <<>>, qa_pairs |-> <<>>]
    /\ json_logger = [turns |-> <<>>, final_feedback |-> None, current_turn |-> 0]
    /\ pc = "idle"
    /\ frame = NoFrame
    /\ ret = NoReturn
    /\ calls = [start_interview |-> 0, end_interview |-> 0,
                analyze_and_recommend |-> 0, observer_generate |-> 0,
                think |-> 0, respond |-> 0,
                generate_feedback |-> 0, add_final_feedback |-> 0,
                add_dialogue_turn |-> 0]
    /\ OneCoordinator

----------------------------------------------------------------------------
(* InterviewMemory (memory_manager.py) *)

\* coordinator.py:37, InterviewMemory(max_history_length=100)
max_history_length == 100

\* memory_manager.py:340-349: topic -> keywords, in dictionary order
common_topics ==
    << [topic |-> "python", keywords |-> {"python", "piton"}],
       [topic |-> "sql", keywords |-> {"sql", "database"}],
       [topic |-> "git", keywords |-> {"git"}],
       [topic |-> "algoritmy", keywords |-> {"algoritm", "sortirovka", "poisk"}],
       [topic |-> "oop", keywords |-> {"oop", "obekt", "klass"}],
       [topic |-> "bazy dannyh", keywords |-> {"baza", "sql", "join"}],
       [topic |-> "veb", keywords |-> {"veb", "http", "api", "rest", "json"}],
       [topic |-> "testirovanie", keywords |-> {"test", "unit", "pytest"}] >>

\* memory_manager.py:337-358
_extract_topic(text) ==
    LET text_lower == Lower(text)
        hit(i) == \E k \in 1..Len(text_lower) :
                      text_lower[k] \in common_topics[i].keywords
    IN  IF \E i \in 1..Len(common_topics) : hit(i)
        THEN common_topics[CHOOSE i \in 1..Len(common_topics) :
                               hit(i) /\ \A j \in 1..(i - 1) : ~hit(j)].topic
        ELSE "obshchie voprosy"

\* memory_manager.py:43-58
initialize_context(mem, context) ==
    LET techs == {context.technologies[i] : i \in 1..Len(context.technologies)}
        fresh == [asked |-> FALSE, correct_answers |-> 0, total_questions |-> 0,
                  difficulty |-> "junior", last_question |-> None]
    IN  [mem EXCEPT
            !.interview_context = Some(context),
            !.topics_covered =
                [t \in (DOMAIN mem.topics_covered) \cup techs |->
                    IF t \in techs THEN fresh ELSE mem.topics_covered[t]]]

\* memory_manager.py:60-94
add_dialogue_turn(mem, speaker, message, metadata) ==
    LET turn == [speaker |-> speaker, role |-> speaker, message |-> message,
                 turn_id |-> Len(mem.dialogue_history) + 1,
                 metadata |-> metadata]
        appended == Append(mem.dialogue_history, turn)
    IN  [mem EXCEPT
            !.dialogue_history =
                IF Len(appended) > max_history_length
                THEN SubSeq(appended, Len(appended) - max_history_length + 1,
                            Len(appended))
                ELSE appended]

\* add_qa_pair altered: the new pair replaces the last one
add_qa_pair_overwrite(mem, question, answer, topic, difficulty, evaluation) ==
    LET qa_pair == [question |-> question, answer |-> answer,
                    topic |-> IF topic # None THEN topic[1]
                              ELSE _extract_topic(question),
                    difficulty |-> difficulty, evaluation |-> evaluation,
                    qa_id |-> Len(mem.qa_pairs) + 1]
    IN  [mem EXCEPT !.qa_pairs =
            IF @ = <<>> THEN <<qa_pair>>
            ELSE [@ EXCEPT ![Len(@)] = qa_pair]]

\* memory_manager.py:96-134; topic is None or <<topic>>
add_qa_pair(mem, question, answer, topic, difficulty, evaluation) ==
    LET qa_pair == [question |-> question, answer |-> answer,
                    topic |-> IF topic # None THEN topic[1]
                              ELSE _extract_topic(question),
                    difficulty |-> difficulty, evaluation |-> evaluation,
                    qa_id |-> Len(mem.qa_pairs) + 1]
        tc == mem.topics_covered
        counted ==
            IF topic = None THEN tc
            ELSE IF topic[1] \notin DOMAIN tc
                 THEN [t \in (DOMAIN tc) \cup {topic[1]} |->
                          IF t = topic[1]
                          THEN [asked |-> TRUE, correct_answers |-> 0,
                                total_questions |-> 1, difficulty |-> difficulty,
                                last_question |-> Some(question)]
                          ELSE tc[t]]
                 ELSE [tc EXCEPT ![topic[1]].total_questions = @ + 1,
                                 ![topic[1]].asked = TRUE]
        credited ==
            IF topic # None /\ evaluation.is_correct
            THEN [counted EXCEPT ![topic[1]].correct_answers = @ + 1]
            ELSE counted
    IN  [mem EXCEPT !.qa_pairs = Append(@, qa_pair),
                    !.topics_covered = credited]

\* memory_manager.py:377-397: the document save_to_file writes
memory_save_to_file(mem) ==
    [interview_context |-> mem.interview_context,
     dialogue_history |-> mem.dialogue_history,
     topics_covered |-> mem.topics_covered,
     qa_pairs |-> mem.qa_pairs,
     metadata |-> [max_history_length |-> max_history_length,
                   total_turns |-> Len(mem.dialogue_history),
                   total_qa_pairs |-> Len(mem.qa_pairs)]]

\* memory_manager.py:399-421: the memory after load_from_file has read the
\* document
memory_load_from_file(mem, data) ==
    [mem EXCEPT !.interview_context = data.interview_context,
                !.dialogue_history = data.dialogue_history,
                !.topics_covered = data.topics_covered,
                !.qa_pairs = data.qa_pairs]

----------------------------------------------------------------------------
(* InterviewJSONLogger (json_logger.py) *)

\* add_turn altered: the turn takes the number of the turn before it
add_turn_same_id(lg, agent_visible_message, user_message, internal_thoughts) ==
    [lg EXCEPT
        !.current_turn = @ + 1,
        !.turns = Append(@, [turn_id |-> lg.current_turn,
                             agent_visible_message |-> agent_visible_message,
                             user_message |-> user_message,
                             internal_thoughts |-> internal_thoughts])]

\* json_logger.py:186-214
add_turn(lg, agent_visible_message, user_message, internal_thoughts) ==
    [lg EXCEPT
        !.current_turn = @ + 1,
        !.turns = Append(@, [turn_id |-> lg.current_turn + 1,
                             agent_visible_message |-> agent_visible_message,
                             user_message |-> user_message,
                             internal_thoughts |-> internal_thoughts])]

\* json_logger.py:216-218
add_final_feedback(lg, feedback) == [lg EXCEPT !.final_feedback = Some(feedback)]

----------------------------------------------------------------------------
(* InterviewerAgent, the planner (interviewer.py) *)

\* interviewer.py:604 and 625
simple_topics ==
    <<"osnovy programmirovaniya", "bazovye kontseptsii", "fundamentalnye znaniya">>
complex_topics ==
    <<"arhitektura sistem", "optimizatsiya proizvoditelnosti", "masshtabirovanie">>

\* interviewer.py:331-333, the greeting text
greeting_text(context) ==
    <<"privet", "opyt", "raboty", "s", context.technologies[1]>>

\* Outcomes of one call of the generation service (llm_client.py:51-96)
LLMOutcomes == {"question"}

\* the outcomes when the request can fail (llm_client.py:93-96)
FailingLLMOutcomes == {"question", "failure"}

\* the outcomes when the service can word its text as a suggestion
\* ("Predlagayu obsudit ...") instead of a question
SuggestingLLMOutcomes == {"question", "suggestion"}

\* llm_client.py:51-96: the text generate returns for a question prompt
\* about `topic`, or the fallback text when the request raises; n numbers
\* the request so that generated texts differ
generate(outcome, n, topic) ==
    IF outcome = "failure" THEN fallback_text
    ELSE IF outcome = "suggestion" THEN <<"predlagayu", "obsudit", topic>>
    ELSE <<"vopros", "q" \o ToString(n), "o", topic>>

\* str.rstrip('.') on a text whose full stops are tokens
RECURSIVE rstrip_stop(_)
rstrip_stop(text) ==
    IF text # <<>> /\ text[Len(text)] = "."
    THEN rstrip_stop(SubSeq(text, 1, Len(text) - 1))
    ELSE text

\* interviewer.py:393-452, on a one-line text: the text ends in "?"
_clean_question(question) ==
    IF question # <<>> /\ question[Len(question)] # "?"
    THEN Append(rstrip_stop(question), "?") ELSE question

\* interviewer.py:248-277
_clean_response_text(response) ==
    IF response = <<>> \/ response[Len(response)] # "?"
    THEN Append(rstrip_stop(response), "?") ELSE response

\* interviewer.py:325-349
interviewer_start_interview(iv, context) ==
    [iv EXCEPT
        !.qa_history = Append(@, [question |-> greeting_text(context),
                                  answer |-> None,
                                  topic |-> Some("opyt i vvedenie"),
                                  difficulty |-> "junior",
                                  quality |-> None,
                                  question_number |-> 1]),
        !.question_count = 1,
        !.current_topic = Some("opyt i vvedenie")]

\* interviewer.py:351-391; llm is the outcome of the generation call
\* raised is TRUE when line 357 divides by the length of an empty list
_generate_next_question(iv, context, llm) ==
    LET technologies == context.technologies
        tech_index == (iv.question_count \div 3) % Len(technologies)
        topic == IF iv.current_topic = None \/ iv.question_count > 3
                 THEN Some(technologies[tech_index + 1])
                 ELSE iv.current_topic
    IN  IF (iv.current_topic = None \/ iv.question_count > 3)
           /\ technologies = <<>>
        THEN [iv |-> iv, response |-> <<>>, raised |-> TRUE]
        ELSE [iv |-> [iv EXCEPT !.current_topic = topic],
              response |-> _clean_question(
                               generate(llm, iv.question_count + 1, topic[1])),
              raised |-> FALSE]

\* interviewer.py:591-610
_generate_simpler_question(iv, context, llm) ==
    LET levels == simpler_difficulty_levels
        current_index == IndexOf(levels, iv.current_difficulty) - 1
        difficulty == IF InList(levels, iv.current_difficulty) /\ current_index > 0
                      THEN levels[(current_index - 1) + 1]
                      ELSE iv.current_difficulty
        topic == IF iv.question_count < Len(simple_topics)
                 THEN simple_topics[iv.question_count + 1]
                 ELSE "osnovy programmirovaniya"
    IN  _generate_next_question(
            [iv EXCEPT !.current_difficulty = difficulty,
                       !.current_topic = Some(topic)],
            context, llm)

\* _generate_harder_question altered: the difficulty jumps to the top level
_generate_harder_question_to_top(iv, context, llm) ==
    _generate_next_question(
        [iv EXCEPT !.current_difficulty = difficulty_levels[Len(difficulty_levels)],
                   !.current_topic = Some("arhitektura sistem")],
        context, llm)

\* interviewer.py:612-631
_generate_harder_question(iv, context, llm) ==
    LET levels == difficulty_levels
        current_index == IndexOf(levels, iv.current_difficulty) - 1
        difficulty == IF InList(levels, iv.current_difficulty)
                         /\ current_index < Len(levels) - 1
                      THEN levels[(current_index + 1) + 1]
                      ELSE iv.current_difficulty
        topic == IF iv.question_count < Len(complex_topics)
                 THEN complex_topics[iv.question_count + 1]
                 ELSE "arhitektura sistem"
    IN  _generate_next_question(
            [iv EXCEPT !.current_difficulty = difficulty,
                       !.current_topic = Some(topic)],
            context, llm)

\* interviewer.py:209-215, the action respond executes
respond_action(answer_quality, observer_recommendation) ==
    IF answer_quality < 4 \/ HasSimplify(observer_recommendation)
    THEN "simplify_question"
    ELSE IF answer_quality > 7 /\ HasEscalate(observer_recommendation)
         THEN "escalate_difficulty"
         ELSE "continue_topic"

\* interviewer.py:194-246; returns the agent's new fields and the response,
\* or the fields at the point where the generation of the question raised
respond(iv, user_input, context, llm) ==
    LET action == respond_action(context.answer_quality,
                                 context.observer_recommendation)
        h == iv.qa_history
        filled == IF h # <<>>
                  THEN [h EXCEPT ![Len(h)].answer = Some(user_input),
                                 ![Len(h)].quality = Some(context.answer_quality)]
                  ELSE h
        iv1 == [iv EXCEPT !.qa_history = filled]
        gen == CASE action = "simplify_question" ->
                        _generate_simpler_question(iv1, context, llm)
                 [] action = "escalate_difficulty" ->
                        _generate_harder_question(iv1, context, llm)
                 [] OTHER -> _generate_next_question(iv1, context, llm)
        response == _clean_response_text(gen.response)
    IN  IF gen.raised
        THEN [iv |-> gen.iv, response |-> <<>>, raised |-> TRUE]
        ELSE [iv |-> [gen.iv EXCEPT
                    !.qa_history =
                        Append(@, [question |-> response, answer |-> None,
                                   topic |-> gen.iv.current_topic,
                                   difficulty |-> gen.iv.current_difficulty,
                                   quality |-> None,
                                   question_number |-> gen.iv.question_count + 1]),
                    !.question_count = @ + 1],
              response |-> response, raised |-> FALSE]

\* len() of one token, in characters
TokenLen(t) ==
    CASE t \in {"s", "o", "?"} -> 1
      [] t \in {"ya", "is", "q1", "q2", "q3", "q4", "q5", "q6", "q7", "q8", "q9"} -> 2
      [] t \in {"SQL", "sql", "q10", "q11", "q12", "q13", "q14"} -> 3
      [] t \in {"stop", "STOP", "Stop", "opyt", "give"} -> 4
      [] t \in {"typed"} -> 5
      [] t \in {"Python", "python", "privet", "raboty", "vopros"} -> 6
      [] t \in {"feedback", "Feedback"} -> 8
      [] t \in {"interview", "Interview", "INTERVIEW", "rasskazhu"} -> 9
      [] OTHER -> 7

\* len(text) of the tokens joined by single blanks
RECURSIVE TextLen(_)
TextLen(text) ==
    IF text = <<>> THEN 0
    ELSE TokenLen(text[1]) + (IF Len(text) > 1 THEN 1 ELSE 0) + TextLen(Tail(text))

\* interviewer.py:779
offtopic_keywords ==
    {"pogoda", "otpusk", "zarplata", "ofis", "udalenka", "komanda", "nachalnik"}

\* interviewer.py:775-791; the texts of the recommendations hold no
\* off-topic keyword
_detect_offtopic(user_input) ==
    \E i \in 1..Len(user_input) : Lower(user_input)[i] \in offtopic_keywords

\* interviewer.py:796, the interrogative words
counter_question_keywords == {"pochemu", "kak", "chto", "kogda", "gde", "zachem"}

\* interviewer.py:793-808; the texts of the recommendations hold neither
\* "?" nor an interrogative word
_detect_counter_question(user_input) ==
    \/ \E i \in 1..Len(user_input) : user_input[i] = "?"
    \/ \E i \in 1..Len(user_input) :
           /\ Lower(user_input)[i] \in counter_question_keywords
           /\ TextLen(user_input) > 10

\* interviewer.py:58-132, the action think returns
think(user_input, context) ==
    LET rec == context.observer_recommendation
        q0 == context.answer_quality
        max(a, b) == IF a > b THEN a ELSE b
        min(a, b) == IF a < b THEN a ELSE b
        q1 == IF HasSimplify(rec) THEN max(1, q0 - 3) ELSE q0
        answer_quality == IF HasEscalate(rec) THEN min(10, q1 + 2) ELSE q1
    IN  IF _detect_offtopic(user_input) THEN "handle_offtopic"
        ELSE IF _detect_counter_question(user_input)
             THEN "handle_counter_question"
        ELSE IF answer_quality < 3 \/ HasSimplify(rec) THEN "simplify_question"
        ELSE IF answer_quality > 7 /\ HasEscalate(rec) THEN "escalate_difficulty"
        ELSE "continue_topic"

----------------------------------------------------------------------------
(* ObserverAgent, the evaluator (observer.py) *)

\* observer.py:177-181, the filler and hedge phrases
meaningless_patterns ==
    {"ne znayu", "hz", "ne pomnyu", "zabyl", "tykayu", "kak by", "tipa", "nu",
     "eee", "aga", "ugu", "da net", "skoree vsego", "vozmozhno", "mozhet byt",
     "navernoe"}

\* _is_answer_meaningful altered: filler phrases are not looked for
_is_answer_meaningful_lenient(answer, question) ==
    LET question_keywords == {Lower(question)[i] : i \in 1..Len(question)}
        answer_words == {Lower(answer)[i] : i \in 1..Len(answer)}
    IN  /\ ~(TextLen(answer) < 15)
        /\ question_keywords \cap answer_words # {}

\* observer.py:169-198
_is_answer_meaningful(answer, question) ==
    LET answer_lower == Lower(answer)
        question_keywords == {Lower(question)[i] : i \in 1..Len(question)}
        answer_words == {answer_lower[i] : i \in 1..Len(answer)}
    IN  /\ ~(TextLen(answer) < 15)
        /\ ~(\E i \in 1..Len(answer) : answer_lower[i] \in meaningless_patterns)
        /\ question_keywords \cap answer_words # {}

\* "<phrase>" in analysis.lower(); "N/10" is also found in the accuracy
\* and confidence lines
InAnalysis(analysis, phrase) ==
    \/ phrase \in analysis.phrases
    \/ \E n \in {3, 6, 8, 10} :
           /\ phrase = ToString(n) \o "/10"
           /\ Some(n) \in {analysis.accuracy, analysis.confidence}

\* _extract_quality_score altered: the default is the lowest keyword score
_extract_quality_score_low_default(analysis) ==
    IF analysis.accuracy # None THEN analysis.accuracy[1]
    ELSE IF InAnalysis(analysis, "otlichn") \/ InAnalysis(analysis, "10/10")
         THEN 9
    ELSE IF InAnalysis(analysis, "horosho") \/ InAnalysis(analysis, "8/10")
         THEN 8
    ELSE IF InAnalysis(analysis, "udovletvoritelno")
            \/ InAnalysis(analysis, "6/10")
         THEN 6
    ELSE 3

\* observer.py:200-221
_extract_quality_score(analysis) ==
    IF analysis.accuracy # None THEN analysis.accuracy[1]
    ELSE IF InAnalysis(analysis, "otlichn") \/ InAnalysis(analysis, "10/10")
         THEN 9
    ELSE IF InAnalysis(analysis, "horosho") \/ InAnalysis(analysis, "8/10")
         THEN 8
    ELSE IF InAnalysis(analysis, "udovletvoritelno")
            \/ InAnalysis(analysis, "6/10")
         THEN 6
    ELSE IF InAnalysis(analysis, "ploho") \/ InAnalysis(analysis, "3/10")
         THEN 3
    ELSE 5

\* observer.py:392-413, in tenths
_extract_confidence_score(analysis) ==
    IF analysis.confidence # None THEN analysis.confidence[1]
    ELSE IF InAnalysis(analysis, "vysokaya uverennost") THEN 8
    ELSE IF InAnalysis(analysis, "srednyaya uverennost") THEN 5
    ELSE IF InAnalysis(analysis, "nizkaya uverennost") THEN 2
    ELSE 5

\* observer.py:377-383
hallucination_keywords ==
    {"gallyutsinatsii: da", "lozhnye utverzhdeniya", "vydumal",
     "oshibochno utverzhdaet", "ne sootvetstvuet faktam"}

\* observer.py:374-390
_detect_hallucinations_in_analysis(analysis) ==
    \E keyword \in hallucination_keywords : InAnalysis(analysis, keyword)

\* positions with "backend" / "frontend" in position.lower()
backend_positions == {"Backend Developer"}
frontend_positions == {"Frontend Developer"}

\* _generate_recommendation altered: the excellent rule is tested first
_generate_recommendation_excellent_first(analysis, context) ==
    LET recommendation ==
            IF InAnalysis(analysis, "otlichn")
               \/ InAnalysis(analysis, "prevoshodn")
            THEN rec_escalate
            ELSE IF InAnalysis(analysis, "gallyutsinatsii: da")
                    \/ InAnalysis(analysis, "vydum")
                    \/ InAnalysis(analysis, "vydumal")
                 THEN rec_point_out
            ELSE IF InAnalysis(analysis, "ne znayu")
                    \/ InAnalysis(analysis, "ne otvetil")
                 THEN rec_simplify
            ELSE IF InAnalysis(analysis, "uverennost: nizk")
                 THEN rec_easier
            ELSE rec_continue
    IN  IF context.position \in backend_positions
        THEN <<recommendation, backend_suffix>>
        ELSE IF context.position \in frontend_positions
             THEN <<recommendation, frontend_suffix>>
             ELSE <<recommendation>>

\* observer.py:323-362
_generate_recommendation(analysis, context) ==
    LET recommendation ==
            IF InAnalysis(analysis, "gallyutsinatsii: da")
               \/ InAnalysis(analysis, "vydum")
               \/ InAnalysis(analysis, "vydumal")
            THEN rec_point_out
            ELSE IF InAnalysis(analysis, "ne znayu")
                    \/ InAnalysis(analysis, "ne otvetil")
                 THEN rec_simplify
            ELSE IF InAnalysis(analysis, "otlichn")
                    \/ InAnalysis(analysis, "prevoshodn")
                 THEN rec_escalate
            ELSE IF InAnalysis(analysis, "uverennost: nizk")
                 THEN rec_easier
            ELSE rec_continue
    IN  IF context.position \in backend_positions
        THEN <<recommendation, backend_suffix>>
        ELSE IF context.position \in frontend_positions
             THEN <<recommendation, frontend_suffix>>
             ELSE <<recommendation>>

\* observer.py:293-321: one call of the generation service gives the text
_analyze_answer(question, answer, context, analysis) ==
    [analysis |-> analysis, generate_calls |-> 1]

\* observer.py:126-167: the records analyze_and_recommend can return for
\* this question and answer with the calls of the generation service it
\* made, `analyses` being the texts the service can give
analyze_and_recommend(question, answer, context, analyses) ==
    IF ~_is_answer_meaningful(answer, question)
    THEN {[result |-> ShortCircuitResult, generate_calls |-> 0]}
    ELSE {[result |->
              [analysis |-> a.analysis,
               answer_quality |-> _extract_quality_score(a.analysis),
               recommendation |-> _generate_recommendation(a.analysis, context),
               has_hallucinations |->
                   _detect_hallucinations_in_analysis(a.analysis),
               confidence_score |-> _extract_confidence_score(a.analysis)],
           generate_calls |-> a.generate_calls] :
          a \in {_analyze_answer(question, answer, context, t) :
                     t \in analyses}}

----------------------------------------------------------------------------
(* InterviewCoordinator (coordinator.py) *)

\* coordinator.py:280-286, words that mark a line as a technical comment
technical_keywords == {"sleduyushchij vopros", "predlagayu", "rassmotrite",
                       "dopolnitelnye aspekty", "esli kandidat"}

\* coordinator.py:255-304, on a one-line text
_clean_final_response(response) ==
    LET lower == Lower(response)
    IN  IF \E i \in 1..Len(response) : lower[i] \in technical_keywords
        THEN <<>>
        ELSE IF response # <<>> /\ response[Len(response)] \notin {".", "!", "?"}
             THEN Append(response, ".")
             ELSE response

\* coordinator.py:393-401
_increase_difficulty(difficulty) ==
    IF InList(difficulty_levels, difficulty)
       /\ IndexOf(difficulty_levels, difficulty) - 1 < Len(difficulty_levels) - 1
    THEN difficulty_levels[IndexOf(difficulty_levels, difficulty) + 1]
    ELSE difficulty

\* coordinator.py:403-411
_decrease_difficulty(difficulty) ==
    IF InList(difficulty_levels, difficulty)
       /\ IndexOf(difficulty_levels, difficulty) - 1 > 0
    THEN difficulty_levels[IndexOf(difficulty_levels, difficulty) - 1]
    ELSE difficulty

\* update_stats altered: a quality of 6 does not count as correct
update_stats_strict(st, answer_quality) ==
    LET counted == IF answer_quality > 6
                   THEN [st EXCEPT !.correct_answers = @ + 1]
                   ELSE [st EXCEPT !.incorrect_answers = @ + 1]
    IN  [counted EXCEPT !.total_questions = @ + 1]

\* update_stats altered: an incorrect answer is not counted in the total
update_stats_uncounted(st, answer_quality) ==
    IF answer_quality >= 6
    THEN [st EXCEPT !.correct_answers = @ + 1, !.total_questions = @ + 1]
    ELSE [st EXCEPT !.incorrect_answers = @ + 1]

\* coordinator.py:364-370, the counters
update_stats(st, answer_quality) ==
    LET counted == IF answer_quality >= 6
                   THEN [st EXCEPT !.correct_answers = @ + 1]
                   ELSE [st EXCEPT !.incorrect_answers = @ + 1]
    IN  [counted EXCEPT !.total_questions = @ + 1]

\* update_phase altered: strict comparisons
update_phase_strict(phase, total_questions) ==
    IF total_questions > 10 THEN "closing"
    ELSE IF total_questions > 5 THEN "deep_dive"
    ELSE phase

\* update_phase altered: the two phase names exchanged
update_phase_swapped(phase, total_questions) ==
    IF total_questions >= 10 THEN "deep_dive"
    ELSE IF total_questions >= 5 THEN "closing"
    ELSE phase

\* coordinator.py:372-376, the phase for a count of processed answers
update_phase(phase, total_questions) ==
    IF total_questions >= 10 THEN "closing"
    ELSE IF total_questions >= 5 THEN "deep_dive"
    ELSE phase

\* coordinator.py:378-384, the committed difficulty
update_difficulty(topic, difficulty, answer_quality) ==
    IF topic # None
    THEN IF answer_quality >= 8 THEN _increase_difficulty(difficulty)
         ELSE IF answer_quality <= 4 THEN _decrease_difficulty(difficulty)
         ELSE difficulty
    ELSE difficulty

\* coordinator.py:386-391, the topic ledger
update_topic_ledger(topic, topics_covered, answer_quality) ==
    IF topic # None /\ answer_quality >= 6 /\ topic[1] \in DOMAIN topics_covered
    THEN [topics_covered EXCEPT ![topic[1]].correct_answers = @ + 1]
    ELSE topics_covered

\* _update_interview_state altered: the first declared technology becomes
\* the current topic
_update_interview_state_sets_topic(c, answer_quality) ==
    LET new_stats == update_stats(c.stats, answer_quality)
    IN  [c EXCEPT
            !.stats = new_stats,
            !.interview_phase = update_phase(@, new_stats.total_questions),
            !.current_topic =
                Some(c.memory.interview_context[1].technologies[1]),
            !.current_difficulty =
                update_difficulty(c.current_topic, @, answer_quality),
            !.memory = [@ EXCEPT !.topics_covered =
                           update_topic_ledger(c.current_topic, @, answer_quality)]]

\* coordinator.py:355-391; c holds the coordinator's fields and its memory
_update_interview_state(c, answer_quality) ==
    LET new_stats == update_stats(c.stats, answer_quality)
    IN  [c EXCEPT
            !.stats = new_stats,
            !.interview_phase = update_phase(@, new_stats.total_questions),
            !.current_difficulty =
                update_difficulty(c.current_topic, @, answer_quality),
            !.memory = [@ EXCEPT !.topics_covered =
                           update_topic_ledger(c.current_topic, @, answer_quality)]]

\* _should_end_interview altered: the response is not lowercased
_should_end_interview_case_sensitive(user_response) ==
    \E keyword \in end_keywords : Contains(user_response, keyword)

\* coordinator.py:413-421
_should_end_interview(user_response) ==
    \E keyword \in end_keywords : Contains(Lower(user_response), keyword)

\* verdict altered: the grade thresholds are strict
verdict_strict(st) ==
    LET total == st.total_questions
        correct == st.correct_answers
        grade == IF total # 0 /\ 10 * correct > 8 * total THEN "Senior"
                 ELSE IF total # 0 /\ 10 * correct > 6 * total THEN "Middle"
                 ELSE IF total # 0 /\ 10 * correct > 4 * total THEN "Junior"
                 ELSE "Trainee"
        percent == IF total = 0 THEN 0 ELSE (100 * correct) \div total
    IN  [grade |-> grade,
         hiring_recommendation |->
             CASE grade = "Senior" -> "Strong Hire"
               [] grade = "Middle" -> "Hire"
               [] OTHER -> "No Hire",
         confidence_score |-> IF percent < 95 THEN percent ELSE 95]

\* coordinator.py:736-759, the verdict (accuracy = correct / total)
verdict(st) ==
    LET total == st.total_questions
        correct == st.correct_answers
        grade == IF total # 0 /\ 10 * correct >= 8 * total THEN "Senior"
                 ELSE IF total # 0 /\ 10 * correct >= 6 * total THEN "Middle"
                 ELSE IF total # 0 /\ 10 * correct >= 4 * total THEN "Junior"
                 ELSE "Trainee"
        percent == IF total = 0 THEN 0 ELSE (100 * correct) \div total
    IN  [grade |-> grade,
         hiring_recommendation |->
             CASE grade = "Senior" -> "Strong Hire"
               [] grade = "Middle" -> "Hire"
               [] OTHER -> "No Hire",
         confidence_score |-> IF percent < 95 THEN percent ELSE 95]

\* the elements of a sequence in the order of their first occurrence
RECURSIVE FirstOccurrences(_)
FirstOccurrences(seq) ==
    IF seq = <<>> THEN <<>>
    ELSE LET front == FirstOccurrences(SubSeq(seq, 1, Len(seq) - 1))
             last == seq[Len(seq)]
         IN  IF InList(front, last) THEN front ELSE Append(front, last)

\* the keys of the ledger in dictionary order: initialize_context inserts
\* the declared technologies in their order (memory_manager.py:50-52); no
\* other key is inserted, add_qa_pair being always called without a topic
ledger_topics(mem) ==
    IF mem.interview_context = None THEN <<>>
    ELSE LET context == mem.interview_context[1]
             technologies == IF "technologies" \in DOMAIN context
                             THEN context.technologies ELSE <<>>
             declared == FirstOccurrences(technologies)
             in_ledger(t) == t \in DOMAIN mem.topics_covered
         IN  SelectSeq(declared, in_ledger)

\* memory_manager.py:275-295 as generate_feedback reads it
\* (coordinator.py:786-787): asked is a flag, and "asked or total_questions"
\* is 1 (True) when the flag is set
get_topic_performance(mem, topic) ==
    LET entry == mem.topics_covered[topic]
    IN  [topic |-> topic,
         skipped |-> ~entry.asked /\ entry.total_questions = 0,
         asked |-> IF entry.asked THEN 1 ELSE entry.total_questions,
         correct |-> entry.correct_answers]

\* coordinator.py:766-780: the statistics rebuilt from qa_pairs when the
\* ledger is empty
temp_topics(qa_pairs) ==
    LET topics == FirstOccurrences([i \in 1..Len(qa_pairs) |->
                                       qa_pairs[i].topic])
        of_topic(t) == {i \in 1..Len(qa_pairs) : qa_pairs[i].topic = t}
    IN  [k \in 1..Len(topics) |->
            [topic |-> topics[k],
             skipped |-> FALSE,
             asked |-> Cardinality(of_topic(topics[k])),
             correct |-> Cardinality(
                 {i \in of_topic(topics[k]) :
                     \/ qa_pairs[i].evaluation.is_correct
                     \/ qa_pairs[i].evaluation.quality >= 6})]]

\* coordinator.py:730-734 and 766-780
topics_stats(mem) ==
    IF ledger_topics(mem) # <<>>
    THEN [k \in 1..Len(ledger_topics(mem)) |->
             get_topic_performance(mem, ledger_topics(mem)[k])]
    ELSE temp_topics(mem.qa_pairs)

\* the first pair of the topic whose quality passes the test, or None
first_pair(qa_pairs, topic, good) ==
    LET hits == {i \in 1..Len(qa_pairs) :
                    /\ qa_pairs[i].topic = topic
                    /\ (qa_pairs[i].evaluation.quality >= 6) = good}
    IN  IF hits = {} THEN None
        ELSE Some(qa_pairs[CHOOSE i \in hits : \A j \in hits : i <= j])

\* coordinator.py:783-811, the confirmed skills
confirmed_skills(stats_of, qa_pairs) ==
    LET is_confirmed(ts) ==
            ~ts.skipped /\ ts.asked # 0 /\ 10 * ts.correct >= 6 * ts.asked
        kept == SelectSeq(stats_of, is_confirmed)
    IN  [k \in 1..Len(kept) |->
            [topic |-> kept[k].topic,
             total_questions |-> kept[k].asked,
             correct_answers |-> kept[k].correct,
             example_question |->
                 LET qa == first_pair(qa_pairs, kept[k].topic, TRUE)
                 IN  IF qa = None THEN <<"voprosy", "po", kept[k].topic>>
                     ELSE qa[1].question]]

\* coordinator.py:814-841, one gap for a topic below 0.6 that has a pair of
\* quality below 6
specific_gaps(stats_of, qa_pairs) ==
    LET is_gap(ts) ==
            /\ ~ts.skipped /\ ts.asked # 0 /\ 10 * ts.correct < 6 * ts.asked
            /\ first_pair(qa_pairs, ts.topic, FALSE) # None
        kept == SelectSeq(stats_of, is_gap)
    IN  [k \in 1..Len(kept) |->
            LET qa == first_pair(qa_pairs, kept[k].topic, FALSE)[1]
            IN  [topic |-> kept[k].topic,
                 question |-> qa.question,
                 quality_score |-> qa.evaluation.quality]]

\* coordinator.py:843-864, the gaps when no specific gap was found
general_gaps(stats_of) ==
    LET is_low(ts) == ts.asked > 0 /\ 10 * ts.correct < 6 * ts.asked
        kept == SelectSeq(stats_of, is_low)
    IN  [k \in 1..Len(kept) |->
            [topic |-> kept[k].topic,
             question |-> <<"obshchie", "voprosy", "po", kept[k].topic>>,
             quality_score |-> (10 * kept[k].correct) \div kept[k].asked]]

\* coordinator.py:814-864
knowledge_gaps(stats_of, qa_pairs) ==
    IF specific_gaps(stats_of, qa_pairs) # <<>>
    THEN specific_gaps(stats_of, qa_pairs)
    ELSE general_gaps(stats_of)

\* coordinator.py:882, topics holding "python", "osnov" or "baz"
high_priority_topics ==
    {"python", "Python", "bazy dannyh", "osnovy programmirovaniya",
     "bazovye kontseptsii"}

\* coordinator.py:901, the first three basic topics
basic_topics == <<"Python", "algoritmy", "bazy dannyh">>

\* the entries a roadmap may hold
MaxRoadmap == 5

\* personal_roadmap altered: every gap gets an entry
personal_roadmap_uncapped(gaps) ==
    LET roadmap == [k \in 1..Len(gaps) |->
                       [priority |-> IF gaps[k].topic \in high_priority_topics
                                     THEN "vysokij" ELSE "srednij",
                        skill |-> gaps[k].topic,
                        estimated_time |-> "2-3 nedeli"]]
    IN  IF roadmap # <<>> THEN roadmap
        ELSE [k \in 1..Len(basic_topics) |->
                 [priority |-> IF k = 1 THEN "vysokij" ELSE "srednij",
                  skill |-> basic_topics[k],
                  estimated_time |-> "3-4 nedeli"]]

\* personal_roadmap altered: no default entries
personal_roadmap_no_default(gaps) ==
    LET first == SubSeq(gaps, 1, IF Len(gaps) < MaxRoadmap THEN Len(gaps)
                                 ELSE MaxRoadmap)
    IN  [k \in 1..Len(first) |->
            [priority |-> IF first[k].topic \in high_priority_topics
                          THEN "vysokij" ELSE "srednij",
             skill |-> first[k].topic,
             estimated_time |-> "2-3 nedeli"]]

\* coordinator.py:874-915
personal_roadmap(gaps) ==
    LET first == SubSeq(gaps, 1, IF Len(gaps) < MaxRoadmap THEN Len(gaps)
                                 ELSE MaxRoadmap)
        roadmap == [k \in 1..Len(first) |->
                       [priority |-> IF first[k].topic \in high_priority_topics
                                     THEN "vysokij" ELSE "srednij",
                        skill |-> first[k].topic,
                        estimated_time |-> "2-3 nedeli"]]
    IN  IF roadmap # <<>> THEN roadmap
        ELSE [k \in 1..Len(basic_topics) |->
                 [priority |-> IF k = 1 THEN "vysokij" ELSE "srednij",
                  skill |-> basic_topics[k],
                  estimated_time |-> "3-4 nedeli"]]

\* coordinator.py:724-935
generate_feedback(st, mem) ==
    LET stats_of == topics_stats(mem)
        gaps == knowledge_gaps(stats_of, mem.qa_pairs)
    IN  [verdict |-> verdict(st),
         technical_review |->
             [confirmed_skills |-> confirmed_skills(stats_of, mem.qa_pairs),
              knowledge_gaps |-> gaps,
              topics_covered |-> [k \in 1..Len(stats_of) |-> stats_of[k].topic]],
         personal_roadmap |-> personal_roadmap(gaps)]

\* coordinator.py:452-473 without the active flag: the feedback, the logger
\* and the memory after end_interview
end_interview_effects(st, mem, lg) ==
    LET feedback == generate_feedback(st, mem)
    IN  [feedback |-> feedback,
         json_logger |-> add_final_feedback(lg, feedback),
         memory |-> add_dialogue_turn(mem, "system", <<"intervyu", "zaversheno">>,
                                      [feedback |-> feedback])]

\* coordinator.py:71-108
start_interview(context) ==
    /\ pc = "idle"
    /\ calls.start_interview < MaxStarts
    /\ context.technologies # <<>>
    /\ LET greeting == greeting_text(context)
       IN  /\ memory' = add_dialogue_turn(initialize_context(memory, context),
                                          "interviewer", greeting, <<>>)
           /\ interviewer' = interviewer_start_interview(interviewer, context)
           /\ json_logger' = add_turn(json_logger, greeting, <<>>, "start")
           /\ ret' = [op |-> "start_interview", text |-> greeting]
    /\ is_interview_active' = TRUE
    /\ interview_phase' = "greeting"
    /\ calls' = [calls EXCEPT !.start_interview = @ + 1]
    /\ UNCHANGED <<current_topic, current_difficulty, stats, pc, frame>>

\* coordinator.py:81-90 and interviewer.py:331-333: with an empty technology
\* list the greeting's technologies[0] raises IndexError, after the context
\* has been stored and the session has been marked active
start_interview_raises(context) ==
    /\ pc = "idle"
    /\ calls.start_interview < MaxStarts
    /\ context.technologies = <<>>
    /\ memory' = initialize_context(memory, context)
    /\ is_interview_active' = TRUE
    /\ interview_phase' = "greeting"
    /\ ret' = [op |-> "start_interview", text |-> <<"IndexError">>]
    /\ calls' = [calls EXCEPT !.start_interview = @ + 1]
    /\ UNCHANGED <<current_topic, current_difficulty, stats, interviewer,
                   json_logger, pc, frame>>

\* process_user_response_inactive altered: the message is recorded before
\* the notice is returned
process_user_response_inactive_recording(user_response) ==
    /\ pc = "idle"
    /\ ~is_interview_active
    /\ memory' = add_dialogue_turn(memory, "candidate", user_response, <<>>)
    /\ ret' = [op |-> "process_user_response", text |-> <<inactive_notice>>]
    /\ UNCHANGED <<coordinator_vars, interviewer, json_logger, pc,
                   frame, calls>>

\* coordinator.py:120-121
process_user_response_inactive(user_response) ==
    /\ pc = "idle"
    /\ ~is_interview_active
    /\ ret' = [op |-> "process_user_response", text |-> <<inactive_notice>>]
    /\ UNCHANGED <<coordinator_vars, interviewer, memory, json_logger, pc,
                   frame, calls>>

\* last_interviewer_message altered: the first interviewer message
last_interviewer_message_first(dialogue_history) ==
    LET said == {i \in 1..Len(dialogue_history) :
                    dialogue_history[i].speaker = "interviewer"}
    IN  IF said = {} THEN <<>>
        ELSE dialogue_history[CHOOSE i \in said : \A j \in said : i <= j].message

\* coordinator.py:135-140
last_interviewer_message(dialogue_history) ==
    LET said == {i \in 1..Len(dialogue_history) :
                    dialogue_history[i].speaker = "interviewer"}
    IN  IF said = {} THEN <<>>
        ELSE dialogue_history[CHOOSE i \in said : \A j \in said : j <= i].message

\* coordinator.py:120-154, up to the call of the evaluator
process_user_response_begin(user_response) ==
    /\ pc = "idle"
    /\ is_interview_active
    /\ memory' = add_dialogue_turn(memory, "candidate", user_response, <<>>)
    /\ frame' = [NoFrame EXCEPT
                    !.user_response = user_response,
                    !.last_question =
                        last_interviewer_message(memory'.dialogue_history)]
    /\ pc' = "observer"
    /\ UNCHANGED <<coordinator_vars, interviewer, json_logger, ret, calls>>

\* coordinator.py:148-153, the context given to the evaluator
context_for_observer ==
    [position |-> memory.interview_context[1].position,
     technologies |-> memory.interview_context[1].technologies,
     current_topic |-> IF current_topic # None THEN current_topic[1]
                       ELSE "obshchie voprosy",
     current_difficulty |-> current_difficulty,
     last_question |-> frame.last_question]

\* process_user_response_observer altered: the counters are updated as soon
\* as the evaluator returns
process_user_response_observer_counting(analysed) ==
    /\ pc = "observer"
    /\ \E r \in analyze_and_recommend(
               frame.last_question, frame.user_response,
               context_for_observer, analysed) :
       LET observer_result == r.result
       IN  /\ frame' = [frame EXCEPT !.observer_result = Some(observer_result)]
           /\ stats' = update_stats(
                           IF observer_result.has_hallucinations
                           THEN [stats EXCEPT !.hallucinations_detected = @ + 1]
                           ELSE stats,
                           observer_result.answer_quality)
           /\ calls' = [calls EXCEPT
                           !.analyze_and_recommend = @ + 1,
                           !.observer_generate = @ + r.generate_calls]
    /\ pc' = "think"
    /\ UNCHANGED <<is_interview_active, current_topic, current_difficulty,
                   interview_phase, interviewer, memory, json_logger, ret>>

\* coordinator.py:156-170: the evaluator is called with the last question
\* and the answer, it returns, and the fabrication counter is updated
process_user_response_observer(analysed) ==
    /\ pc = "observer"
    /\ \E r \in analyze_and_recommend(
               frame.last_question, frame.user_response,
               context_for_observer, analysed) :
       LET observer_result == r.result
       IN  /\ frame' = [frame EXCEPT !.observer_result = Some(observer_result)]
           /\ stats' = IF observer_result.has_hallucinations
                       THEN [stats EXCEPT !.hallucinations_detected = @ + 1]
                       ELSE stats
           /\ calls' = [calls EXCEPT
                           !.analyze_and_recommend = @ + 1,
                           !.observer_generate = @ + r.generate_calls]
    /\ pc' = "think"
    /\ UNCHANGED <<is_interview_active, current_topic, current_difficulty,
                   interview_phase, interviewer, memory, json_logger, ret>>

\* coordinator.py:172-177 and 306-353: the internal dialogue
process_user_response_think ==
    /\ pc = "think"
    /\ LET observer_result == frame.observer_result[1]
           interviewer_context ==
               [observer_recommendation |-> observer_result.recommendation,
                user_response |-> frame.user_response,
                answer_quality |-> observer_result.answer_quality]
           \* coordinator.py:337: think is given the recommendation text
           user_input == <<"Rekomendatsiya Observer:">>
                             \o observer_result.recommendation
       IN  frame' = [frame EXCEPT
                        !.action = Some(think(user_input, interviewer_context))]
    /\ calls' = [calls EXCEPT !.think = @ + 1]
    /\ pc' = "respond"
    /\ UNCHANGED <<coordinator_vars, interviewer, memory, json_logger, ret>>

\* coordinator.py:180-189, the context given to the planner's respond
context_for_interviewer ==
    [technologies |-> memory.interview_context[1].technologies,
     position |-> memory.interview_context[1].position,
     observer_recommendation |-> frame.observer_result[1].recommendation,
     answer_quality |-> frame.observer_result[1].answer_quality,
     is_good_answer |-> frame.observer_result[1].answer_quality >= 6,
     current_topic |-> current_topic,
     current_difficulty |-> current_difficulty,
     last_question |-> frame.last_question]

\* coordinator.py:179-251: the planner answers, the state is updated, the
\* turn is recorded and, on a stop keyword, the interview is ended
process_user_response_respond(outcomes) ==
    /\ pc = "respond"
    /\ LET user_response == frame.user_response
           last_question == frame.last_question
           observer_result == frame.observer_result[1]
           answer_quality == observer_result.answer_quality
       IN  \E llm \in outcomes :
           LET r == respond(interviewer, user_response,
                            context_for_interviewer, llm)
               interviewer_response == _clean_final_response(r.response)
               c == _update_interview_state(
                        [stats |-> stats, interview_phase |-> interview_phase,
                         current_topic |-> current_topic,
                         current_difficulty |-> current_difficulty,
                         memory |-> memory],
                        answer_quality)
               mem1 == add_dialogue_turn(
                           c.memory, "interviewer", interviewer_response,
                           [phase |-> c.interview_phase,
                            topic |-> c.current_topic,
                            difficulty |-> c.current_difficulty,
                            answer_quality |-> answer_quality])
               mem2 == IF last_question # <<>>
                       THEN add_qa_pair(
                                mem1, last_question, Some(user_response),
                                c.current_topic, c.current_difficulty,
                                [quality |-> answer_quality,
                                 has_hallucinations |->
                                     observer_result.has_hallucinations,
                                 recommendation |->
                                     observer_result.recommendation,
                                 is_correct |-> answer_quality >= 6])
                       ELSE mem1
               lg1 == add_turn(json_logger, interviewer_response,
                               user_response, frame.action[1])
               stop == _should_end_interview(user_response)
               e == end_interview_effects(c.stats, mem2, lg1)
           IN  /\ ~r.raised
               /\ interviewer' = r.iv
               /\ stats' = c.stats
               /\ interview_phase' = c.interview_phase
               /\ current_topic' = c.current_topic
               /\ current_difficulty' = c.current_difficulty
               /\ memory' = IF stop THEN e.memory ELSE mem2
               /\ json_logger' = IF stop THEN e.json_logger ELSE lg1
               /\ is_interview_active' = IF stop THEN FALSE
                                         ELSE is_interview_active
               /\ calls' = [calls EXCEPT
                               !.respond = @ + 1,
                               !.end_interview = IF stop THEN @ + 1 ELSE @,
                               !.generate_feedback = IF stop THEN @ + 1 ELSE @,
                               !.add_final_feedback = IF stop THEN @ + 1 ELSE @]
               /\ ret' = [op |-> "process_user_response",
                          text |-> IF stop
                                   THEN Append(interviewer_response,
                                               closing_notice)
                                   ELSE interviewer_response]
    /\ pc' = "idle"
    /\ frame' = NoFrame

\* coordinator.py:194-198: the planner's respond raises ZeroDivisionError
\* (interviewer.py:357) and the error leaves process_user_response; nothing
\* after the call is executed
process_user_response_respond_raises ==
    /\ pc = "respond"
    /\ LET r == respond(interviewer, frame.user_response,
                        context_for_interviewer, "question")
       IN  /\ r.raised
           /\ interviewer' = r.iv
    /\ calls' = [calls EXCEPT !.respond = @ + 1]
    /\ ret' = [op |-> "process_user_response",
               text |-> <<"ZeroDivisionError">>]
    /\ pc' = "idle"
    /\ frame' = NoFrame
    /\ UNCHANGED <<coordinator_vars, memory, json_logger>>

\* coordinator.py:452-473
end_interview ==
    /\ pc = "idle"
    /\ calls.end_interview < MaxEnds
    /\ LET e == end_interview_effects(stats, memory, json_logger)
       IN  /\ memory' = e.memory
           /\ json_logger' = e.json_logger
           /\ ret' = [op |-> "end_interview", text |-> <<>>]
    /\ is_interview_active' = FALSE
    /\ calls' = [calls EXCEPT !.end_interview = @ + 1,
                              !.generate_feedback = @ + 1,
                              !.add_final_feedback = @ + 1]
    /\ UNCHANGED <<current_topic, current_difficulty, interview_phase, stats,
                   interviewer, pc, frame>>

----------------------------------------------------------------------------
(* Specifications *)

\* sessions of at most MaxAnswers answers, every message and evaluation
Next ==
    \/ \E context \in Contexts : start_interview(context) /\ Alone
    \/ \E m \in UserMessages : process_user_response_inactive(m) /\ Alone
    \/ /\ stats.total_questions < MaxAnswers
       /\ \E m \in UserMessages : process_user_response_begin(m)
       /\ Alone
    \/ process_user_response_observer(ObserverResults) /\ Alone
    \/ process_user_response_think /\ Alone
    \/ process_user_response_respond(LLMOutcomes) /\ Alone
    \/ end_interview /\ Alone

Spec == Init /\ [][Next]_vars

\* sessions of at most MaxLongAnswers answers: excellent answers and stop
\* messages (which the evaluator short-circuits)
NextLong ==
    \/ \E context \in Contexts : start_interview(context) /\ Alone
    \/ \E m \in LongUserMessages : process_user_response_inactive(m) /\ Alone
    \/ /\ stats.total_questions < MaxLongAnswers
       /\ \E m \in LongUserMessages : process_user_response_begin(m)
       /\ Alone
    \/ process_user_response_observer(LongObserverResults) /\ Alone
    \/ process_user_response_think /\ Alone
    \/ process_user_response_respond(LLMOutcomes) /\ Alone
    \/ end_interview /\ Alone

SpecLong == Init /\ [][NextLong]_vars

\* sessions of at most MaxTurnAnswers answers: every kind of message
NextTurn ==
    \/ \E context \in Contexts : start_interview(context) /\ Alone
    \/ \E m \in TurnUserMessages : process_user_response_inactive(m) /\ Alone
    \/ /\ stats.total_questions < MaxTurnAnswers
       /\ \E m \in TurnUserMessages : process_user_response_begin(m)
       /\ Alone
    \/ process_user_response_observer(ObserverResults) /\ Alone
    \/ process_user_response_think /\ Alone
    \/ process_user_response_respond(LLMOutcomes) /\ Alone
    \/ end_interview /\ Alone

SpecTurn == Init /\ [][NextTurn]_vars

\* sessions of at most MaxFailureAnswers answers in which every request to
\* the generation service can fail
NextFailure ==
    \/ \E context \in Contexts : start_interview(context) /\ Alone
    \/ \E m \in FailureUserMessages : process_user_response_inactive(m) /\ Alone
    \/ /\ stats.total_questions < MaxFailureAnswers
       /\ \E m \in FailureUserMessages : process_user_response_begin(m)
       /\ Alone
    \/ process_user_response_observer(FailureObserverResults) /\ Alone
    \/ process_user_response_think /\ Alone
    \/ process_user_response_respond(FailingLLMOutcomes) /\ Alone
    \/ end_interview /\ Alone

SpecFailure == Init /\ [][NextFailure]_vars

\* the analysis met under SpecRotation: no marker, so that the quality is
\* the default and the planner continues
RotationObserverResults == {plain_analysis}

\* the candidate's message under SpecRotation
RotationUserMessages == {plain_answer}

\* sessions of at most MaxRotationAnswers answers that the planner answers
\* with the continue action
NextRotation ==
    \/ \E context \in Contexts : start_interview(context) /\ Alone
    \/ \E m \in RotationUserMessages : process_user_response_inactive(m) /\ Alone
    \/ /\ stats.total_questions < MaxRotationAnswers
       /\ \E m \in RotationUserMessages : process_user_response_begin(m)
       /\ Alone
    \/ process_user_response_observer(RotationObserverResults) /\ Alone
    \/ process_user_response_think /\ Alone
    \/ process_user_response_respond(LLMOutcomes) /\ Alone
    \/ end_interview /\ Alone

SpecRotation == Init /\ [][NextRotation]_vars

\* the phrases _generate_recommendation looks for (observer.py:346-353),
\* one per rule, and the second phrase of the rules that have two
rule_markers == {"gallyutsinatsii: da", "ne znayu", "otlichn", "uverennost: nizk"}
second_markers == {"vydum", "vydumal", "ne otvetil", "prevoshodn"}

\* the analyses met under SpecMarkers: every combination of the rules'
\* phrases, and each second phrase alone
MarkerObserverResults ==
    {[accuracy |-> None, confidence |-> None, phrases |-> found] :
        found \in SUBSET rule_markers \cup {{m} : m \in second_markers}}

\* the positions met under SpecMarkers: a backend one, a frontend one and
\* one that is neither
MarkerContexts ==
    {[position |-> p, technologies |-> <<"Python", "SQL">>] :
        p \in {"Backend Developer", "Frontend Developer", "Data Analyst"}}

\* the candidate's message under SpecMarkers
MarkerUserMessages == {plain_answer}

\* sessions of at most MaxMarkerAnswers answers whose analysis holds any
\* combination of the phrases the recommendation is derived from
NextMarkers ==
    \/ \E context \in MarkerContexts : start_interview(context) /\ Alone
    \/ \E m \in MarkerUserMessages : process_user_response_inactive(m) /\ Alone
    \/ /\ stats.total_questions < MaxMarkerAnswers
       /\ \E m \in MarkerUserMessages : process_user_response_begin(m)
       /\ Alone
    \/ process_user_response_observer(MarkerObserverResults) /\ Alone
    \/ process_user_response_think /\ Alone
    \/ process_user_response_respond(LLMOutcomes) /\ Alone
    \/ end_interview /\ Alone

SpecMarkers == Init /\ [][NextMarkers]_vars

\* the memory of a coordinator after n <= max_history_length calls of
\* add_dialogue_turn, the interviewer and the candidate speaking in turn:
\* the k-th call appends a turn whose turn_id is k (memory_manager.py:79-88)
memory_after(n) ==
    [dialogue_history |->
         [k \in 1..n |->
             LET speaker == IF k % 2 = 1 THEN "interviewer" ELSE "candidate"
             IN  [speaker |-> speaker, role |-> speaker,
                  message |-> <<"soobshchenie">>, turn_id |-> k,
                  metadata |-> <<>>]],
     interview_context |-> None,
     topics_covered |-> <<>>, qa_pairs |-> <<>>]

\* who speaks in a turn added under SpecMemory
MemorySpeakers == {"interviewer", "candidate"}

\* the memory holds no turn, or as many as it keeps or up to two fewer
InitMemory ==
    /\ \E n \in {0} \cup ((max_history_length - 2)..max_history_length) :
           memory = memory_after(n)
    /\ is_interview_active = FALSE
    /\ current_topic = None
    /\ current_difficulty = "junior"
    /\ interview_phase = "greeting"
    /\ stats = [total_questions |-> 0, correct_answers |-> 0,
                incorrect_answers |-> 0, hallucinations_detected |-> 0,
                offtopic_redirects |-> 0]
    /\ interviewer = [current_topic |-> None, current_difficulty |-> "junior",
                      question_count |-> 0, qa_history |-> <<>>]
    /\ json_logger = [turns |-> <<>>, final_feedback |-> None, current_turn |-> 0]
    /\ pc = "idle"
    /\ frame = NoFrame
    /\ ret = NoReturn
    /\ calls = [start_interview |-> 0, end_interview |-> 0,
                analyze_and_recommend |-> 0, observer_generate |-> 0,
                think |-> 0, respond |-> 0,
                generate_feedback |-> 0, add_final_feedback |-> 0,
                add_dialogue_turn |-> 0]
    /\ OneCoordinator

\* memory_manager.py:60-94, one call made on the memory
add_dialogue_turn_called(speaker, message) ==
    /\ calls.add_dialogue_turn < MaxMemoryCalls
    /\ memory' = add_dialogue_turn(memory, speaker, message, <<>>)
    /\ calls' = [calls EXCEPT !.add_dialogue_turn = @ + 1]
    /\ UNCHANGED <<coordinator_vars, interviewer, json_logger, pc, frame, ret>>

NextMemory ==
    \E speaker \in MemorySpeakers :
        add_dialogue_turn_called(speaker, <<"soobshchenie">>) /\ Alone

\* an InterviewMemory to which turns are added
SpecMemory == InitMemory /\ [][NextMemory]_vars

\* a context whose technology list is empty
InvalidContexts ==
    { [position |-> "Backend Developer", technologies |-> <<>>] }

\* the analyses met under SpecInvalidStart: one the planner continues on
\* and one it escalates on
InvalidStartObserverResults == {plain_analysis, excellent_analysis}

\* the candidate's message under SpecInvalidStart
InvalidStartUserMessages == {plain_answer}

\* sessions that are started with a valid or with an invalid context
NextInvalidStart ==
    \/ \E context \in Contexts : start_interview(context) /\ Alone
    \/ \E context \in InvalidContexts : start_interview_raises(context) /\ Alone
    \/ \E m \in InvalidStartUserMessages :
           process_user_response_inactive(m) /\ Alone
    \/ /\ calls.respond < MaxInvalidStartAnswers
       /\ \E m \in InvalidStartUserMessages : process_user_response_begin(m)
       /\ Alone
    \/ process_user_response_observer(InvalidStartObserverResults) /\ Alone
    \/ process_user_response_think /\ Alone
    \/ process_user_response_respond(LLMOutcomes) /\ Alone
    \/ process_user_response_respond_raises /\ Alone
    \/ end_interview /\ Alone

SpecInvalidStart == Init /\ [][NextInvalidStart]_vars

\* the analysis met under SpecSuggestion
SuggestionObserverResults == {plain_analysis}

\* the candidate's messages under SpecSuggestion: an answer and a stop
\* message
SuggestionUserMessages == { plain_answer, <<"give", "Feedback">> }

\* sessions of at most MaxSuggestionAnswers answers in which the text of
\* the generation service can be worded as a suggestion
NextSuggestion ==
    \/ \E context \in Contexts : start_interview(context) /\ Alone
    \/ \E m \in SuggestionUserMessages :
           process_user_response_inactive(m) /\ Alone
    \/ /\ stats.total_questions < MaxSuggestionAnswers
       /\ \E m \in SuggestionUserMessages : process_user_response_begin(m)
       /\ Alone
    \/ process_user_response_observer(SuggestionObserverResults) /\ Alone
    \/ process_user_response_think /\ Alone
    \/ process_user_response_respond(SuggestingLLMOutcomes) /\ Alone
    \/ end_interview /\ Alone

SpecSuggestion == Init /\ [][NextSuggestion]_vars

\* the accuracies of the analyses met under SpecActions: on both sides of
\* the thresholds of think (3, 7) and of respond (4, 7)
ActionAccuracies == {2, 3, 6, 8}

\* the analyses met under SpecActions: each accuracy with no marker, with
\* the marker of the escalate rule and with the marker of the simplify rule
ActionObserverResults ==
    {[accuracy |-> Some(q), confidence |-> None, phrases |-> found] :
        q \in ActionAccuracies, found \in {{}, {"otlichn"}, {"ne znayu"}}}

\* the candidate's messages under SpecActions: an answer and a question
ActionUserMessages == {plain_answer, counter_question}

\* sessions of at most MaxActionAnswers answers, evaluated with every
\* combination of accuracy and recommendation
NextActions ==
    \/ \E context \in Contexts : start_interview(context) /\ Alone
    \/ \E m \in ActionUserMessages : process_user_response_inactive(m) /\ Alone
    \/ /\ stats.total_questions < MaxActionAnswers
       /\ \E m \in ActionUserMessages : process_user_response_begin(m)
       /\ Alone
    \/ process_user_response_observer(ActionObserverResults) /\ Alone
    \/ process_user_response_think /\ Alone
    \/ process_user_response_respond(LLMOutcomes) /\ Alone
    \/ end_interview /\ Alone

SpecActions == Init /\ [][NextActions]_vars

\* the fields of the coordinator the state holds, as one record
Snapshot ==
    [is_interview_active |-> is_interview_active,
     current_topic |-> current_topic,
     current_difficulty |-> current_difficulty,
     interview_phase |-> interview_phase,
     stats |-> stats,
     interviewer |-> interviewer,
     memory |-> memory,
     json_logger |-> json_logger,
     pc |-> pc, frame |-> frame, ret |-> ret, calls |-> calls]

\* a coordinator as its constructor leaves it (coordinator.py:22-69)
FreshCoordinator ==
    [is_interview_active |-> FALSE,
     current_topic |-> None,
     current_difficulty |-> "junior",
     interview_phase |-> "greeting",
     stats |-> [total_questions |-> 0, correct_answers |-> 0,
                incorrect_answers |-> 0, hallucinations_detected |-> 0,
                offtopic_redirects |-> 0],
     interviewer |-> [current_topic |-> None, current_difficulty |-> "junior",
                      question_count |-> 0, qa_history |-> <<>>],
     memory |-> [dialogue_history |-> <<>>, interview_context |-> None,
                 topics_covered |-> <<>>, qa_pairs |-> <<>>],
     json_logger |-> [turns |-> <<>>, final_feedback |-> None,
                      current_turn |-> 0],
     pc |-> "idle", frame |-> NoFrame, ret |-> NoReturn,
     calls |-> [start_interview |-> 0, end_interview |-> 0,
                analyze_and_recommend |-> 0, observer_generate |-> 0,
                think |-> 0, respond |-> 0,
                generate_feedback |-> 0, add_final_feedback |-> 0,
                add_dialogue_turn |-> 0]]

\* two coordinators have been constructed, in either order: the global
\* logger is the logger of the one constructed last (coordinator.py:39-41)
InitIsolation ==
    /\ is_interview_active = FreshCoordinator.is_interview_active
    /\ current_topic = FreshCoordinator.current_topic
    /\ current_difficulty = FreshCoordinator.current_difficulty
    /\ interview_phase = FreshCoordinator.interview_phase
    /\ stats = FreshCoordinator.stats
    /\ interviewer = FreshCoordinator.interviewer
    /\ memory = FreshCoordinator.memory
    /\ json_logger = FreshCoordinator.json_logger
    /\ pc = FreshCoordinator.pc
    /\ frame = FreshCoordinator.frame
    /\ ret = FreshCoordinator.ret
    /\ calls = FreshCoordinator.calls
    /\ self_id = 1
    /\ others = FreshCoordinator
    /\ _global_logger \in {1, 2}

\* the instances whose logger an operation of instance `self` appends its
\* turn to: its own, self.json_logger (coordinator.py:99-104, 238-244);
\* no operation reads the global logger
written_loggers_and_global(self, global_logger) == {self, global_logger}

written_loggers(self, global_logger) == {self}

\* what a step of the operating coordinator does to the other one: a turn
\* it logs is appended to each logger it writes to
OnOthers ==
    /\ UNCHANGED <<self_id, _global_logger>>
    /\ others' =
          IF /\ (3 - self_id) \in written_loggers(self_id, _global_logger)
             /\ json_logger'.turns # json_logger.turns
          THEN LET turn == json_logger'.turns[Len(json_logger'.turns)]
               IN  [others EXCEPT !.json_logger =
                       add_turn(@, turn.agent_visible_message,
                                turn.user_message, turn.internal_thoughts)]
          ELSE others

\* the event loop passes from an operation of one coordinator to an
\* operation of the other (at a call boundary or at an await)
switch_coordinator ==
    /\ others' = Snapshot
    /\ self_id' = 3 - self_id
    /\ is_interview_active' = others.is_interview_active
    /\ current_topic' = others.current_topic
    /\ current_difficulty' = others.current_difficulty
    /\ interview_phase' = others.interview_phase
    /\ stats' = others.stats
    /\ interviewer' = others.interviewer
    /\ memory' = others.memory
    /\ json_logger' = others.json_logger
    /\ pc' = others.pc
    /\ frame' = others.frame
    /\ ret' = others.ret
    /\ calls' = others.calls
    /\ UNCHANGED _global_logger

\* the operations the two coordinators have been asked for so far
IsolationOperations ==
    calls.start_interview + calls.end_interview + calls.respond
    + others.calls.start_interview + others.calls.end_interview
    + others.calls.respond

\* two coordinators whose operations interleave, MaxIsolationOperations
\* operations in all
NextIsolation ==
    \/ /\ IsolationOperations < MaxIsolationOperations
       /\ \E context \in Contexts : start_interview(context)
       /\ OnOthers
    \/ /\ IsolationOperations < MaxIsolationOperations
       /\ pc = "idle"
       /\ \E m \in FailureUserMessages : process_user_response_begin(m)
       /\ OnOthers
    \/ process_user_response_observer(LongObserverResults) /\ OnOthers
    \/ process_user_response_think /\ OnOthers
    \/ process_user_response_respond(LLMOutcomes) /\ OnOthers
    \/ /\ IsolationOperations < MaxIsolationOperations
       /\ end_interview
       /\ OnOthers
    \/ switch_coordinator

SpecIsolation == InitIsolation /\ [][NextIsolation]_vars

\* coordinator.py:1173-1195: the files save_session writes for the
\* coordinator c, the memory file and the log file
save_session(c) ==
    [memory_file |-> memory_save_to_file(c.memory),
     log_file |-> [turns |-> c.json_logger.turns,
                   final_feedback |-> c.json_logger.final_feedback]]

\* a newly constructed coordinator whose memory has loaded the memory file
\* (memory_manager.py:399-421; the coordinator has no loading operation and
\* nothing reads the log file back)
load_session(files) ==
    [FreshCoordinator EXCEPT
        !.memory = memory_load_from_file(@, files.memory_file)]

\* keywords of common_topics a question can hold, one for each topic
feedback_keywords ==
    <<"python", "sql", "git", "algoritm", "oop", "baza", "veb", "test">>

\* a context that declares no technologies (the ledger stays empty)
undeclared_context == [position |-> "Backend Developer"]

\* the memory after n answers, the k-th to a question on the k-th keyword
\* and of quality qualities[k], in a session that declared no technologies
answered_memory(qualities) ==
    [dialogue_history |-> <<>>,
     interview_context |-> Some(undeclared_context),
     topics_covered |-> <<>>,
     qa_pairs |->
        [k \in 1..Len(qualities) |->
            LET question == <<"vopros", "o", feedback_keywords[k], "?">>
            IN  [question |-> question,
                 answer |-> Some(plain_answer),
                 topic |-> _extract_topic(question),
                 difficulty |-> "junior",
                 evaluation |-> [quality |-> qualities[k],
                                 has_hallucinations |-> FALSE,
                                 recommendation |-> <<rec_continue>>,
                                 is_correct |-> qualities[k] >= 6],
                 qa_id |-> k]]]

\* generate_feedback as a function of the memory and the statistics: the
\* question/answer pairs are drawn, the statistics and the phase are those
\* the answers give, and the feedback is produced by end_interview
InitFeedback ==
    /\ \E n \in 0..MaxFeedbackPairs : \E qualities \in [1..n -> {3, 7}] :
           /\ memory = answered_memory(qualities)
           /\ stats = [total_questions |-> n,
                       correct_answers |->
                           Cardinality({k \in 1..n : qualities[k] >= 6}),
                       incorrect_answers |->
                           Cardinality({k \in 1..n : qualities[k] < 6}),
                       hallucinations_detected |-> 0,
                       offtopic_redirects |-> 0]
           /\ interview_phase = update_phase("greeting", n)
    /\ is_interview_active = TRUE
    /\ current_topic = None
    /\ current_difficulty = "junior"
    /\ interviewer = [current_topic |-> None, current_difficulty |-> "junior",
                      question_count |-> 0, qa_history |-> <<>>]
    /\ json_logger = [turns |-> <<>>, final_feedback |-> None, current_turn |-> 0]
    /\ pc = "idle"
    /\ frame = NoFrame
    /\ ret = NoReturn
    /\ calls = [start_interview |-> 0, end_interview |-> 0,
                analyze_and_recommend |-> 0, observer_generate |-> 0,
                think |-> 0, respond |-> 0,
                generate_feedback |-> 0, add_final_feedback |-> 0,
                add_dialogue_turn |-> 0]
    /\ OneCoordinator

NextFeedback == end_interview /\ Alone

SpecFeedback == InitFeedback /\ [][NextFeedback]_vars

----------------------------------------------------------------------------
(* Properties *)

\* the messages of the input sets that hold a stop keyword in some case
StopMessages ==
    {<<"stop", "interview", "give", "feedback">>, <<"STOP", "Interview">>,
     <<"give", "Feedback">>}

\* the visible message of the last logged turn
VisibleMessage == json_logger.turns[Len(json_logger.turns)].agent_visible_message

\* some logged turn carries a stop message of the candidate
StoppedByCandidate ==
    \E i \in 1..Len(json_logger.turns) :
        json_logger.turns[i].user_message \in StopMessages

Level(difficulty) == IndexOf(difficulty_levels, difficulty)

Rank(phase) == IndexOf(SpecPhases, phase)

StepUp(difficulty) ==
    CASE difficulty = "junior" -> "middle"
      [] difficulty = "middle" -> "senior"
      [] OTHER -> difficulty

StepDown(difficulty) ==
    CASE difficulty = "senior" -> "middle"
      [] difficulty = "middle" -> "junior"
      [] OTHER -> difficulty

\* C1: at every moment the total number of processed answers equals the
\* number of correct answers plus the number of incorrect answers.
C1_TotalIsCorrectPlusIncorrect ==
    stats.total_questions = stats.correct_answers + stats.incorrect_answers

C1_Witness ==
    /\ pc = "idle"
    /\ stats.correct_answers >= 1
    /\ stats.incorrect_answers >= 1

C3_FeedbackOnce ==
    (calls.start_interview = 1 /\ StoppedByCandidate)
    => /\ calls.generate_feedback <= 1
       /\ calls.add_final_feedback <= 1

C5_CommittedDifficultyFollowsQuality ==
    [][pc = "respond"
       => LET answer_quality == frame.observer_result[1].answer_quality
          IN  current_difficulty' =
                  IF answer_quality >= 8 THEN StepUp(current_difficulty)
                  ELSE IF answer_quality <= 4 THEN StepDown(current_difficulty)
                  ELSE current_difficulty]_vars

\* C6: when the planner's respond executes the escalate action its
\* difficulty moves one level up (unless senior), and when it executes the
\* simplify action its difficulty moves one level down (unless junior).
C6_PlannerEscalateUpSimplifyDown ==
    [][pc = "respond"
       => LET observer_result == frame.observer_result[1]
              action == respond_action(observer_result.answer_quality,
                                       observer_result.recommendation)
          IN  /\ action = "escalate_difficulty"
                 => interviewer.current_difficulty'
                        = StepUp(interviewer.current_difficulty)
              /\ action = "simplify_question"
                 => interviewer.current_difficulty'
                        = StepDown(interviewer.current_difficulty)]_vars

\* C7: after every processed answer the phase is "closing" when the total
\* of processed answers is 10 or more, and "deep_dive" when it is at least 5
\* and below 10.
C7_PhaseFollowsCount ==
    [][pc = "respond"
       => /\ stats'.total_questions >= 10 => interview_phase' = "closing"
          /\ (stats'.total_questions >= 5 /\ stats'.total_questions < 10)
             => interview_phase' = "deep_dive"]_vars

C7_Witness ==
    /\ pc = "idle"
    /\ ret.op = "process_user_response"
    /\ stats.total_questions >= 10
    /\ interview_phase = "closing"

\* C8 as stated: the phase is always one of greeting, technical, deep_dive,
\* closing, ended, and no operation (a repeated start_interview included)
\* moves it to an earlier one.
C8_PhaseNeverBackward ==
    [][/\ InList(SpecPhases, interview_phase)
       /\ InList(SpecPhases, interview_phase')
       /\ Rank(interview_phase') >= Rank(interview_phase)]_vars

\* C8 as the code has it: the phase is always one of the five names, and
\* process_user_response and end_interview never move it to an earlier one;
\* start_interview sets it to "greeting" whatever it was.
C8_PhaseBackwardOnlyByStart ==
    [][/\ InList(SpecPhases, interview_phase)
       /\ InList(SpecPhases, interview_phase')
       /\ IF calls'.start_interview # calls.start_interview
          THEN interview_phase' = "greeting"
          ELSE Rank(interview_phase') >= Rank(interview_phase)]_vars

C8_Witness ==
    /\ calls.start_interview = 2
    /\ ret.op = "start_interview"
    /\ stats.total_questions >= 5
    /\ interview_phase = "greeting"

\* C9: in every turn the planner (think, respond) is invoked only after
\* analyze_and_recommend returned for that turn, and the question given to
\* the evaluator is the last question already shown to the candidate, never
\* the one generated in the same turn.
C9_EvaluatorBeforePlanner ==
    [][/\ pc \in {"think", "respond"}
          => /\ frame.observer_result # None
             /\ calls.analyze_and_recommend = calls.respond + 1
       /\ pc = "think" => calls'.think = calls.analyze_and_recommend
       /\ pc = "respond" => /\ calls.think = calls.analyze_and_recommend
                            /\ calls'.respond = calls.analyze_and_recommend
                            /\ frame.last_question # VisibleMessage'
       /\ pc \in {"observer", "think", "respond"}
          => /\ frame.last_question # <<>>
             /\ frame.last_question = VisibleMessage
             /\ frame.last_question = ret.text]_vars

C9_Witness ==
    /\ pc = "respond"
    /\ calls.respond >= 1
    /\ frame.last_question[1] = "vopros"

C11_StatsPerAnswer ==
    [][/\ pc = "observer"
          => stats' = [stats EXCEPT !.hallucinations_detected =
                          IF frame'.observer_result[1].has_hallucinations
                          THEN @ + 1 ELSE @]
       /\ pc = "respond"
          => LET answer_quality == frame.observer_result[1].answer_quality
             IN  stats' = [stats EXCEPT
                     !.total_questions = @ + 1,
                     !.correct_answers =
                         IF answer_quality >= 6 THEN @ + 1 ELSE @,
                     !.incorrect_answers =
                         IF answer_quality >= 6 THEN @ ELSE @ + 1]
       /\ pc \in {"idle", "think"} => stats' = stats]_vars

C11_Witness ==
    /\ pc = "idle"
    /\ ret.op = "process_user_response"
    /\ stats.total_questions = 1
    /\ stats.correct_answers = 1
    /\ stats.hallucinations_detected = 1
    /\ memory.qa_pairs[1].evaluation.quality = 6

\* the entries of the planner's qa_history that wait for an answer
Outstanding(qa_history) ==
    {i \in 1..Len(qa_history) : qa_history[i].answer = None}

\* no step changes an entry of memory.qa_pairs that exists
QAPairsKept ==
    /\ Len(memory'.qa_pairs) >= Len(memory.qa_pairs)
    /\ \A i \in 1..Len(memory.qa_pairs) :
           memory'.qa_pairs[i] = memory.qa_pairs[i]

\* a step changes no entry of qa_history but the last, and the last only
\* from unanswered to answered
QAHistoryFilledOnce ==
    LET h == interviewer.qa_history
        k == interviewer'.qa_history
    IN  /\ Len(k) >= Len(h)
        /\ \A i \in 1..Len(h) :
               k[i] # h[i]
               => /\ i = Len(h)
                  /\ h[i].answer = None
                  /\ k[i].answer # None
                  /\ k[i].quality # None
                  /\ k[i].question = h[i].question

LedgerTopics ==
    (DOMAIN memory.topics_covered)
        \cup {memory.qa_pairs[i].topic : i \in 1..Len(memory.qa_pairs)}

\* C13: in every reachable state, for every topic t, the ledger's
\* total_questions for t (0 when t has no entry) is at least the number of
\* entries of qa_pairs whose topic is t and whose answer is not null.
C13_LedgerCountsAnsweredPairs ==
    \A t \in LedgerTopics :
        (IF t \in DOMAIN memory.topics_covered
         THEN memory.topics_covered[t].total_questions ELSE 0)
        >= Cardinality({i \in 1..Len(memory.qa_pairs) :
                           /\ memory.qa_pairs[i].topic = t
                           /\ memory.qa_pairs[i].answer # None})

\* the action the stated priority gives for an answer and its evaluation
PlannerPriority(user_response, answer_quality, recommendation) ==
    IF _detect_offtopic(user_response) THEN "handle_offtopic"
    ELSE IF _detect_counter_question(user_response)
         THEN "handle_counter_question"
    ELSE IF answer_quality < 4 \/ HasSimplify(recommendation)
         THEN "simplify_question"
    ELSE IF answer_quality > 7 /\ HasEscalate(recommendation)
         THEN "escalate_difficulty"
    ELSE "continue_topic"

\* C14: the action the planner executes to produce the next visible message
\* follows the priority off-topic, counter-question (whatever the quality),
\* simplify, escalate, continue.
C14_ActionFollowsPriority ==
    pc = "respond"
    => LET observer_result == frame.observer_result[1]
       IN  respond_action(observer_result.answer_quality,
                          observer_result.recommendation)
               = PlannerPriority(frame.user_response,
                                 observer_result.answer_quality,
                                 observer_result.recommendation)

\* the answer is shorter than 15 characters
IsShort(answer) == TextLen(answer) < 15

\* the answer holds a filler or hedge phrase
HasFiller(answer) ==
    \E i \in 1..Len(answer) : Lower(answer)[i] \in meaningless_patterns

\* the answer shares no token with the question
SharesNoToken(answer, question) ==
    \A i \in 1..Len(answer) : \A j \in 1..Len(question) :
        Lower(answer)[i] # Lower(question)[j]

\* C15: analyze_and_recommend short-circuits, with no call of the
\* generation service, when the answer is shorter than 15 characters, or
\* holds a filler phrase, or shares no token with the question; it then
\* returns quality 2, a recommendation that mentions simplification and no
\* fabrication flag; otherwise it calls the generation service exactly once.
C15_ShortCircuit ==
    [][pc = "observer"
       => LET answer == frame.user_response
              question == frame.last_question
              result == frame'.observer_result[1]
          IN  IF \/ IsShort(answer)
                 \/ HasFiller(answer)
                 \/ SharesNoToken(answer, question)
              THEN /\ calls'.observer_generate = calls.observer_generate
                   /\ result.answer_quality = 2
                   /\ HasSimplify(result.recommendation)
                   /\ ~result.has_hallucinations
              ELSE calls'.observer_generate = calls.observer_generate + 1]_vars

C15_Witness ==
    /\ pc = "think"
    /\ frame.user_response = filler_answer
    /\ ~IsShort(filler_answer)
    /\ ~SharesNoToken(filler_answer, frame.last_question)
    /\ calls.observer_generate = 0
    /\ frame.observer_result[1].answer_quality = 2

\* C16: every evaluation analyze_and_recommend returns has a quality from 1
\* to 10 and a confidence from 0 to 1 (0 to 10 tenths), whatever numbers the
\* analysis text carries.
C16_EvaluationInRange ==
    frame.observer_result # None
    => LET observer_result == frame.observer_result[1]
       IN  /\ 1 <= observer_result.answer_quality
           /\ observer_result.answer_quality <= 10
           /\ 0 <= observer_result.confidence_score
           /\ observer_result.confidence_score <= 10

\* the feedback was generated in this step
FeedbackGenerated == calls'.generate_feedback # calls.generate_feedback

\* the stated grade and hiring recommendation for correct out of total
StatedGrade(correct, total) ==
    IF total > 0 /\ 10 * correct >= 8 * total THEN <<"Senior", "Strong Hire">>
    ELSE IF total > 0 /\ 10 * correct >= 6 * total THEN <<"Middle", "Hire">>
    ELSE IF total > 0 /\ 10 * correct >= 4 * total THEN <<"Junior", "No Hire">>
    ELSE <<"Trainee", "No Hire">>

\* 100 * correct / total rounded to the nearest integer
RoundedPercent(correct, total) == (200 * correct + total) \div (2 * total)

\* C17: the verdict of generate_feedback is a function of correct_answers and
\* total_questions only: accuracy >= 0.8 gives Senior / Strong Hire, >= 0.6
\* Middle / Hire, >= 0.4 Junior / No Hire, anything lower (and a total of 0)
\* Trainee / No Hire.
C17_VerdictBuckets ==
    [][FeedbackGenerated
       => LET v == json_logger'.final_feedback[1].verdict
          IN  <<v.grade, v.hiring_recommendation>>
                  = StatedGrade(stats'.correct_answers,
                                stats'.total_questions)]_vars

C17_Witness ==
    /\ json_logger.final_feedback # None
    /\ json_logger.final_feedback[1].verdict.grade = "Middle"
    /\ stats.correct_answers = 3
    /\ stats.total_questions = 5
    /\ ret.op = "process_user_response"

\* C18: the verdict's confidence_score is min(95, round(100 * correct /
\* total)) when total > 0 and 0 when total is 0.
C18_ConfidenceRounded ==
    [][FeedbackGenerated
       => LET v == json_logger'.final_feedback[1].verdict
              correct == stats'.correct_answers
              total == stats'.total_questions
              rounded == RoundedPercent(correct, total)
          IN  v.confidence_score =
                  IF total = 0 THEN 0
                  ELSE IF rounded < 95 THEN rounded ELSE 95]_vars

\* the topics of the pairs of qa_pairs that hold an answer
AnsweredTopics(qa_pairs) ==
    {qa_pairs[i].topic : i \in {j \in 1..Len(qa_pairs) :
                                   qa_pairs[j].answer # None}}

\* the entries of a list of the feedback that name the topic
EntriesOf(list, topic) == {k \in 1..Len(list) : list[k].topic = topic}

\* the answers to the topic's questions are correct (quality >= 6) in at
\* least 0.6 of the cases
TopicAccurate(qa_pairs, topic) ==
    LET of_topic == {i \in 1..Len(qa_pairs) : qa_pairs[i].topic = topic}
        correct == {i \in of_topic : qa_pairs[i].evaluation.quality >= 6}
    IN  10 * Cardinality(correct) >= 6 * Cardinality(of_topic)

\* C19: in the feedback of a session that declared a technology list, every
\* topic for which an answer was processed is listed exactly once: as a
\* confirmed skill when its accuracy is at least 0.6, as a knowledge gap
\* otherwise.
C19_AnsweredTopicsListedOnce ==
    [][(FeedbackGenerated /\ memory'.interview_context # None)
       => LET review == json_logger'.final_feedback[1].technical_review
              qa_pairs == memory'.qa_pairs
          IN  \A t \in AnsweredTopics(qa_pairs) :
                  LET skills == EntriesOf(review.confirmed_skills, t)
                      gaps == EntriesOf(review.knowledge_gaps, t)
                  IN  IF TopicAccurate(qa_pairs, t)
                      THEN Cardinality(skills) = 1 /\ gaps = {}
                      ELSE Cardinality(gaps) = 1 /\ skills = {}]_vars

\* C20: the roadmap of every feedback is not empty; it has one entry for
\* each knowledge gap, in their order, up to 5 entries, and it is the default
\* starter curriculum when there is no knowledge gap.
C20_RoadmapNeverEmpty ==
    [][FeedbackGenerated
       => LET feedback == json_logger'.final_feedback[1]
              gaps == feedback.technical_review.knowledge_gaps
              roadmap == feedback.personal_roadmap
          IN  /\ roadmap # <<>>
              /\ IF gaps = <<>>
                 THEN [k \in 1..Len(roadmap) |-> roadmap[k].skill]
                          = <<"Python", "algoritmy", "bazy dannyh">>
                 ELSE /\ Len(roadmap) = IF Len(gaps) < 5 THEN Len(gaps) ELSE 5
                      /\ \A k \in 1..Len(roadmap) :
                             roadmap[k].skill = gaps[k].topic]_vars

C20_Witness ==
    /\ json_logger.final_feedback # None
    /\ Len(json_logger.final_feedback[1].technical_review.knowledge_gaps) = 6
    /\ Len(json_logger.final_feedback[1].personal_roadmap) = 5

\* end_interview can be called on a started session that has processed no
\* answer
NoAnswerProcessed ==
    /\ pc = "idle"
    /\ ret.op = "start_interview"
    /\ calls.respond = 0
    /\ calls.end_interview < MaxEnds

\* C21: end_interview directly after start_interview, no answer having been
\* processed, completes (it does not raise) and returns the baseline
\* feedback: grade Trainee, recommendation No Hire, confidence 0, no
\* confirmed skill, no knowledge gap, and a roadmap that is not empty.
C21_BaselineFeedback ==
    /\ [](NoAnswerProcessed => ENABLED end_interview)
    /\ [][(NoAnswerProcessed /\ FeedbackGenerated)
          => LET feedback == json_logger'.final_feedback[1]
             IN  /\ ret'.op = "end_interview"
                 /\ feedback.verdict.grade = "Trainee"
                 /\ feedback.verdict.hiring_recommendation = "No Hire"
                 /\ feedback.verdict.confidence_score = 0
                 /\ feedback.technical_review.confirmed_skills = <<>>
                 /\ feedback.technical_review.knowledge_gaps = <<>>
                 /\ feedback.personal_roadmap # <<>>]_vars

C21_Witness ==
    /\ ret.op = "end_interview"
    /\ calls.start_interview = 1
    /\ calls.respond = 0
    /\ json_logger.final_feedback # None
    /\ json_logger.final_feedback[1].verdict.grade = "Trainee"

\* the request of the evaluator failed in the turn in flight: the analysis
\* it evaluated is the fallback text
EvaluatorRequestFailed ==
    /\ frame.observer_result # None
    /\ frame.observer_result[1].analysis = fallback_analysis

\* the question the planner returns when its request fails
FallbackQuestion == _clean_final_response(
                        _clean_response_text(_clean_question(fallback_text)))

\* C22: a failure of the generation service during a turn is not propagated.
\* generate returns the fixed fallback text; an evaluation made from it is
\* the hard default (quality 5, confidence 0.5, no fabrication flag); and the
\* turn completes: between the evaluator and the planner's answer the
\* counters stay, the planner's respond returns the fallback text as its
\* question, and the answer step counts the answer exactly once, returns a
\* message, and leaves the session active unless the candidate asked to
\* stop.
C22_GenerationFailureAbsorbed ==
    /\ [](\A n \in 1..(MaxFailureAnswers + 2) :
              generate("failure", n, "Python") = fallback_text)
    /\ [](EvaluatorRequestFailed
          => /\ frame.observer_result[1].answer_quality = 5
             /\ frame.observer_result[1].confidence_score = 5
             /\ ~frame.observer_result[1].has_hallucinations)
    /\ [](pc = "respond"
          => respond(interviewer, frame.user_response,
                     context_for_interviewer, "failure").response
                 = _clean_response_text(_clean_question(fallback_text)))
    /\ [][(pc = "observer" \/ pc = "think")
          => stats'.total_questions = stats.total_questions]_vars
    /\ [][(pc = "respond"
           /\ (EvaluatorRequestFailed \/ ret'.text[1] = FallbackQuestion[1]))
          => /\ pc' = "idle"
             /\ ret'.op = "process_user_response"
             /\ stats'.total_questions = stats.total_questions + 1
             /\ stats'.correct_answers + stats'.incorrect_answers
                    = stats.correct_answers + stats.incorrect_answers + 1
             /\ is_interview_active'
                    = ~_should_end_interview(frame.user_response)]_vars

\* a turn in which both requests failed has completed and the session goes on
C22_Witness ==
    /\ pc = "idle"
    /\ is_interview_active
    /\ ret.op = "process_user_response"
    /\ ret.text = FallbackQuestion
    /\ stats.total_questions = 1
    /\ stats.incorrect_answers = 1
    /\ memory.qa_pairs # <<>>
    /\ memory.qa_pairs[1].evaluation.quality = 5

\* the turn log of the next state is that of this state with n more turns
LogGrownBy(n) ==
    /\ Len(json_logger'.turns) = Len(json_logger.turns) + n
    /\ SubSeq(json_logger'.turns, 1, Len(json_logger.turns)) = json_logger.turns

\* C23: the turn log is append-only and its turn_id values are 1, 2, 3, ...
\* in order: start_interview appends exactly one turn, each processed
\* process_user_response appends exactly one turn, no other step changes the
\* log and no logged turn is ever modified; final_feedback is null until
\* end_interview has run and is not null afterwards.
C23_TurnLogAppendOnly ==
    /\ [](\A i \in 1..Len(json_logger.turns) : json_logger.turns[i].turn_id = i)
    /\ []((json_logger.final_feedback # None) <=> (calls.end_interview > 0))
    /\ [][LogGrownBy(IF calls'.start_interview # calls.start_interview
                        \/ calls'.respond # calls.respond
                     THEN 1 ELSE 0)]_vars

C23_Witness ==
    /\ Len(json_logger.turns) = 3
    /\ json_logger.turns[3].turn_id = 3
    /\ json_logger.turns[3].user_message = plain_answer
    /\ json_logger.final_feedback # None

\* the fields of the other coordinator that the sessions must not share
SessionState(c) ==
    [stats |-> c.stats, interview_phase |-> c.interview_phase,
     current_difficulty |-> c.current_difficulty,
     is_interview_active |-> c.is_interview_active,
     dialogue_history |-> c.memory.dialogue_history,
     qa_pairs |-> c.memory.qa_pairs,
     topics_covered |-> c.memory.topics_covered,
     turns |-> c.json_logger.turns]

\* C24: with two coordinators whose operations interleave in any order, no
\* step of an operation on one of them changes the other's stats, phase,
\* difficulty, active flag, memory (dialogue history, qa_pairs, topic ledger)
\* or logged turns; passing from one to the other changes neither.
C24_SessionsIsolated ==
    [][IF self_id' = self_id
       THEN SessionState(others') = SessionState(others)
       ELSE /\ SessionState(others') = SessionState(Snapshot)
            /\ SessionState(Snapshot') = SessionState(others)]_vars

\* both sessions are under way, the first one suspended in the middle of a
\* turn while the second, whose logger is not the global one, has logged
C24_Witness ==
    /\ self_id = 2
    /\ _global_logger = 1
    /\ others.pc = "think"
    /\ Len(others.json_logger.turns) = 1
    /\ Len(json_logger.turns) = 1
    /\ is_interview_active

\* C25: saving a session snapshot and loading it back into a fresh state
\* reproduces identical stats (total, correct, incorrect, hallucinations),
\* identical qa_pairs and an identical topic ledger.
C25_SnapshotRoundTrip ==
    pc = "idle"
    => LET loaded == load_session(save_session(Snapshot))
       IN  /\ loaded.stats.total_questions = stats.total_questions
           /\ loaded.stats.correct_answers = stats.correct_answers
           /\ loaded.stats.incorrect_answers = stats.incorrect_answers
           /\ loaded.stats.hallucinations_detected
                  = stats.hallucinations_detected
           /\ loaded.memory.qa_pairs = memory.qa_pairs
           /\ loaded.memory.topics_covered = memory.topics_covered

\* the ledger's count of a field for a topic (0 for a topic it does not hold)
LedgerCount(topics_covered, t, field) ==
    IF t \in DOMAIN topics_covered THEN topics_covered[t][field] ELSE 0

\* C26: each processed answer updates the ledger entry of one topic, the
\* session's current topic: its total_questions grows by exactly 1 and its
\* correct_answers by exactly 1 when the quality is at least 6 and by 0
\* otherwise; so correct_answers <= total_questions for every topic.
C26_LedgerUpdatedPerAnswer ==
    [][(pc = "respond" /\ pc' = "idle")
       => /\ \E t \in DOMAIN memory'.topics_covered :
                 /\ LedgerCount(memory'.topics_covered, t, "total_questions")
                        = LedgerCount(memory.topics_covered, t,
                                      "total_questions") + 1
                 /\ LedgerCount(memory'.topics_covered, t, "correct_answers")
                        = LedgerCount(memory.topics_covered, t,
                                      "correct_answers")
                          + (IF frame.observer_result[1].answer_quality >= 6
                             THEN 1 ELSE 0)
          /\ \A t \in DOMAIN memory'.topics_covered :
                 memory'.topics_covered[t].correct_answers
                     <= memory'.topics_covered[t].total_questions]_vars

\* a step in which process_user_response is called: it begins a turn, or it
\* returns the notice of a session that is not active
ProcessUserResponseCalled ==
    /\ pc = "idle"
    /\ \/ pc' = "observer"
       \/ ret' # ret /\ ret'.text = <<inactive_notice>>

\* C27: every call of process_user_response appends the candidate's message
\* to the dialogue history, whatever the state of the session.
C27_MessageAlwaysAppended ==
    [][ProcessUserResponseCalled
       => LET history == memory'.dialogue_history
          IN  /\ Len(history) = Len(memory.dialogue_history) + 1
              /\ history[Len(history)].speaker = "candidate"]_vars

\* the topic is one of the declared technologies
IsTechnology(topic) ==
    /\ topic # None
    /\ memory.interview_context # None
    /\ InList(memory.interview_context[1].technologies, topic[1])

\* C28: while the planner's action is continue, the topic advances through
\* the declared technology list in declared order: the first question on a
\* technology is on the first one, each technology is held for exactly 3
\* consecutive questions, and the list wraps around at its end.
C28_TopicRotation ==
    (calls.start_interview = 1 /\ pc = "idle")
    => LET h == interviewer.qa_history
           technologies == memory.interview_context[1].technologies
           on_technology == {i \in 1..Len(h) : IsTechnology(h[i].topic)}
       IN  \A p \in on_technology :
               (\A j \in on_technology : p <= j)
               => \A i \in p..Len(h) :
                      h[i].topic = Some(technologies[
                          (((i - p) \div 3) % Len(technologies)) + 1])

\* the action the planner executes in the turn in progress
PlannerAction ==
    respond_action(context_for_interviewer.answer_quality,
                   context_for_interviewer.observer_recommendation)

\* the planner's step of a turn
PlannerResponds == pc = "respond" /\ pc' = "idle"

\* C29: after a simplify action the planner's current topic is one of the
\* foundational labels and after an escalate action it is one of the
\* advanced labels, whatever the question count.
C29_DedicatedTopicPools ==
    [][PlannerResponds
       => /\ PlannerAction = "simplify_question"
             => /\ interviewer'.current_topic # None
                /\ InList(simple_topics, interviewer'.current_topic[1])
          /\ PlannerAction = "escalate_difficulty"
             => /\ interviewer'.current_topic # None
                /\ InList(complex_topics, interviewer'.current_topic[1])]_vars

\* the analysis the evaluator derived the recommendation of this turn from
Analysed == frame.observer_result[1].analysis

\* the rule's text in the recommendation the evaluator returned
SelectedRule == frame.observer_result[1].recommendation[1]

\* the evaluator returned a recommendation derived from an analysis
RecommendationDerived ==
    /\ pc = "think"
    /\ frame.observer_result[1] # ShortCircuitResult

HasFabricationMarker ==
    Analysed.phrases \cap {"gallyutsinatsii: da", "vydum", "vydumal"} # {}
HasNoAnswerMarker == Analysed.phrases \cap {"ne znayu", "ne otvetil"} # {}
HasExcellentMarker == Analysed.phrases \cap {"otlichn", "prevoshodn"} # {}
HasLowConfidenceMarker == "uverennost: nizk" \in Analysed.phrases

\* C30: the recommendation derived from an analysis follows a fixed
\* precedence over the markers the analysis holds: fabrication, then
\* no answer, then excellent, then low confidence, then the default; the
\* position's suffix comes after the rule's text and does not change it.
C30_RecommendationPrecedence ==
    RecommendationDerived
    => /\ SelectedRule =
              IF HasFabricationMarker THEN rec_point_out
              ELSE IF HasNoAnswerMarker THEN rec_simplify
              ELSE IF HasExcellentMarker THEN rec_escalate
              ELSE IF HasLowConfidenceMarker THEN rec_easier
              ELSE rec_continue
       /\ Tail(frame.observer_result[1].recommendation)
              \in {<<>>, <<backend_suffix>>, <<frontend_suffix>>}

\* a frontend session's analysis holds every marker and the evaluator
\* recommends pointing out the inaccuracy
C30_Witness ==
    /\ RecommendationDerived
    /\ Analysed.phrases = rule_markers
    /\ memory.interview_context[1].position = "Frontend Developer"
    /\ frame.observer_result[1].recommendation = <<rec_point_out, frontend_suffix>>

\* the step in which the evaluator is called and returns
EvaluatorCalled == pc = "observer" /\ pc' = "think"

\* C31: a call of analyze_and_recommend leaves the session state as it was,
\* on the short-circuit path and on the full-analysis path: phase, topic,
\* difficulty, dialogue history, qa_pairs and topic ledger are unchanged, and
\* of the stats only the fabrication counter moves, by the coordinator's own
\* statement on the returned flag.
C31_EvaluatorLeavesSessionState ==
    [][EvaluatorCalled
       => /\ interview_phase' = interview_phase
          /\ current_topic' = current_topic
          /\ current_difficulty' = current_difficulty
          /\ is_interview_active' = is_interview_active
          /\ memory' = memory
          /\ stats' = [stats EXCEPT !.hallucinations_detected =
                          IF frame'.observer_result[1].has_hallucinations
                          THEN @ + 1 ELSE @]]_vars

\* the evaluator has returned a full analysis that reports a fabrication,
\* in the second turn of a session
C31_Witness ==
    /\ pc = "think"
    /\ frame.observer_result[1] # ShortCircuitResult
    /\ frame.observer_result[1].has_hallucinations
    /\ stats.total_questions = 1
    /\ Len(memory.qa_pairs) = 1

\* C32: in the dialogue history the turn_id values are unique and strictly
\* increasing, and no recorded turn is ever removed, after any number of
\* add_dialogue_turn calls.
C32_TurnIdsIncreasingTurnsKept ==
    /\ [](\A i, j \in 1..Len(memory.dialogue_history) :
              i < j => memory.dialogue_history[i].turn_id
                           < memory.dialogue_history[j].turn_id)
    /\ [][\A i \in 1..Len(memory.dialogue_history) :
              \E j \in 1..Len(memory'.dialogue_history) :
                  memory'.dialogue_history[j] = memory.dialogue_history[i]]_vars

\* start_interview has raised
StartFailed ==
    /\ calls'.start_interview # calls.start_interview
    /\ ret'.text = <<"IndexError">>

\* C33: when start_interview fails on an invalid context the session is
\* not active afterwards and no greeting turn has been recorded.
C33_FailedStartLeavesInactive ==
    [][StartFailed
       => /\ ~is_interview_active'
          /\ memory'.dialogue_history = memory.dialogue_history
          /\ json_logger' = json_logger]_vars

\* the ledger entry initialize_context writes for a declared technology
UntouchedLedgerEntry ==
    [asked |-> FALSE, correct_answers |-> 0, total_questions |-> 0,
     difficulty |-> "junior", last_question |-> None]

\* C34: over any sequence of operations the coordinator's current_topic
\* stays null, the topic of every recorded pair is the one derived from its
\* question text, and the ledger entry of every declared technology stays
\* as initialize_context wrote it.
C34_TopicStaysNull ==
    /\ current_topic = None
    /\ \A k \in 1..Len(memory.qa_pairs) :
           memory.qa_pairs[k].topic = _extract_topic(memory.qa_pairs[k].question)
    /\ memory.interview_context # None
       => \A i \in 1..Len(memory.interview_context[1].technologies) :
              LET technology == memory.interview_context[1].technologies[i]
              IN  /\ technology \in DOMAIN memory.topics_covered
                  /\ memory.topics_covered[technology] = UntouchedLedgerEntry

\* two answers have been processed, the second one a good answer
C34_Witness ==
    /\ pc = "idle"
    /\ Len(memory.qa_pairs) = 2
    /\ memory.qa_pairs[2].evaluation.is_correct
    /\ current_topic = None
    /\ memory.topics_covered["Python"].total_questions = 0

\* a step taken while no call is in progress and the session is not active
WhileInactive == pc = "idle" /\ ~is_interview_active

\* the step is a call of start_interview or of end_interview
StartOrEndCalled ==
    \/ calls'.start_interview # calls.start_interview
    \/ calls'.end_interview # calls.end_interview

\* C35: while the session is not active, process_user_response returns the
\* inactive notice without calling the evaluator or the planner and leaves
\* stats, phase, difficulty, dialogue history, qa_pairs and logged turns
\* unchanged; the session becomes active only by a call of start_interview.
C35_InactiveCallRejected ==
    [][WhileInactive
       => /\ is_interview_active'
             => calls'.start_interview = calls.start_interview + 1
          /\ ~StartOrEndCalled
             => /\ ret' = [op |-> "process_user_response",
                          text |-> <<inactive_notice>>]
                /\ pc' = "idle"
                /\ calls' = calls
                /\ UNCHANGED <<coordinator_vars, interviewer, memory,
                               json_logger>>]_vars

\* a message sent after the end of a session in which an answer was
\* processed has been rejected
C35_Witness ==
    /\ ret = [op |-> "process_user_response", text |-> <<inactive_notice>>]
    /\ ~is_interview_active
    /\ calls.end_interview >= 1
    /\ stats.total_questions >= 1
    /\ Len(memory.qa_pairs) = stats.total_questions

\* the planner's step of a turn whose message holds a stop keyword
TerminatingTurn ==
    PlannerResponds /\ _should_end_interview(frame.user_response)

\* C36: the message that triggers termination is processed as an answer
\* before the session ends: the evaluator and the planner are invoked,
\* total_questions grows by 1, a pair with the stop message as its answer is
\* recorded, and the feedback is computed from the stats that include the
\* turn.
C36_StopMessageProcessedAsAnswer ==
    [][TerminatingTurn
       => /\ frame.observer_result # None
          /\ calls.analyze_and_recommend > calls.respond
          /\ calls'.respond = calls.respond + 1
          /\ stats'.total_questions = stats.total_questions + 1
          /\ Len(memory'.qa_pairs) = Len(memory.qa_pairs) + 1
          /\ memory'.qa_pairs[Len(memory'.qa_pairs)].answer
                 = Some(frame.user_response)
          /\ ~is_interview_active'
          /\ json_logger'.final_feedback # None
          /\ json_logger'.final_feedback[1].verdict = verdict(stats')]_vars

\* C37: in every turn the action written to the turn's internal notes,
\* which think decided, is the action respond then executes.
C37_NotedActionIsExecuted ==
    [][PlannerResponds => frame.action[1] = PlannerAction]_vars

\* C38: after every processed turn stats.total_questions equals the number
\* of recorded pairs, which get_status reports as memory_stats.total_questions.
C38_QuestionCountsAgree ==
    pc = "idle" => stats.total_questions = Len(memory.qa_pairs)

\* C39: after every processed turn the committed difficulty of the
\* coordinator, which get_status reports and the recorded pair holds, equals
\* the difficulty of the planner that the next question was generated for.
C39_CommittedDifficultyIsPlanners ==
    [][PlannerResponds
       => /\ current_difficulty' = interviewer'.current_difficulty
          /\ Len(memory'.qa_pairs) > Len(memory.qa_pairs)
             => memory'.qa_pairs[Len(memory'.qa_pairs)].difficulty
                    = interviewer'.current_difficulty]_vars

====
